---- MODULE Spec2Model ----
(***************************************************************************)
(* A model of go-qbit/rpc: the method registry (RegisterMethod,            *)
(* descsFromMethod, getValidators, bindErrors), the request pipeline       *)
(* (Rpc.ServeHTTP, MethodDesc.Call, validateData, the constraint rules)    *)
(* the Accept-Encoding matchers (CanGzip, CanGzipFast) and the two         *)
(* projections of the registry (GetSwagger, the TypeScript client).        *)
(*                                                                         *)
(* Go strings whose characters matter (package paths, method names,        *)
(* header values, string request values) are sequences of one-character    *)
(* strings.  Field names and JSON names are atomic strings.                *)
(***************************************************************************)
EXTENDS Integers, Sequences, FiniteSets, TLC

VARIABLES
    trimPrefix,   \* Rpc.trimPrefix
    methods,      \* Rpc.methods: path -> MethodDesc
    errVars,      \* the services' ErrorsV<N> structures: field -> bound code
    lastReg,      \* what the last RegisterMethod call returned
    calls,        \* the requests being served: one record per ServeHTTP call
    maxMemory,    \* Rpc.options.maxMemory
    tmpFiles,     \* the temporary directory: one record per file ever created
    ce,           \* the Accept-Encoding value given to CanGzip
    gzipRes,      \* what CanGzip and CanGzipFast returned for it
    docs          \* the documents generated from the registry so far

vars == <<trimPrefix, methods, errVars, lastReg, calls, maxMemory, tmpFiles, ce, gzipRes,
         docs>>

regVars == <<trimPrefix, methods, errVars, lastReg>>
callVars == <<calls, maxMemory, tmpFiles>>
gzipVars == <<ce, gzipRes>>
docVars == <<docs>>

(***************************************************************************)
(* Strings                                                                 *)
(***************************************************************************)
UpperChars == <<"A","B","C","D","E","F","G","H","I","J","K","L","M",
                "N","O","P","Q","R","S","T","U","V","W","X","Y","Z">>
LowerChars == <<"a","b","c","d","e","f","g","h","i","j","k","l","m",
                "n","o","p","q","r","s","t","u","v","w","x","y","z">>
Digits == {"0","1","2","3","4","5","6","7","8","9"}

IsUpper(c) == \E i \in DOMAIN UpperChars : UpperChars[i] = c

ToLowerChar(c) ==
    IF IsUpper(c)
    THEN LowerChars[CHOOSE i \in DOMAIN UpperChars : UpperChars[i] = c]
    ELSE c

\* strings.ToLower
ToLower(s) == [i \in 1..Len(s) |-> ToLowerChar(s[i])]

\* strings.HasPrefix
HasPrefix(s, p) == Len(p) <= Len(s) /\ SubSeq(s, 1, Len(p)) = p

\* strings.HasSuffix
HasSuffix(s, p) == Len(p) <= Len(s) /\ SubSeq(s, Len(s) - Len(p) + 1, Len(s)) = p

\* strings.TrimPrefix
TrimPrefix(s, p) == IF HasPrefix(s, p) THEN SubSeq(s, Len(p) + 1, Len(s)) ELSE s

\* strings.TrimSuffix
TrimSuffix(s, p) == IF HasSuffix(s, p) THEN SubSeq(s, 1, Len(s) - Len(p)) ELSE s

\* strings.Index: the first position (from 1) where sub occurs in s, 0 if none
Index(s, sub) ==
    LET hits == {i \in 1..(Len(s) - Len(sub) + 1) : SubSeq(s, i, i + Len(sub) - 1) = sub}
    IN IF hits = {} THEN 0 ELSE CHOOSE i \in hits : \A j \in hits : i <= j

\* strings.Split(s, sep) for a one-character separator
RECURSIVE Split(_, _)
Split(s, sep) ==
    LET pos == Index(s, <<sep>>)
    IN IF pos = 0 THEN <<s>>
       ELSE <<SubSeq(s, 1, pos - 1)>> \o Split(SubSeq(s, pos + 1, Len(s)), sep)

\* the concatenation of a sequence of strings
RECURSIVE Flatten(_)
Flatten(ss) == IF ss = <<>> THEN <<>> ELSE Head(ss) \o Flatten(Tail(ss))

Range(f) == {f[x] : x \in DOMAIN f}

\* F applied to the value of v, v being evaluated once
With(v, F(_)) == CHOOSE y \in {F(x) : x \in {v}} : TRUE

(***************************************************************************)
(* The Accept-Encoding matcher                                             *)
(***************************************************************************)
gzipWord == <<"g","z","i","p">>

\* a match of the regular expression gzip with no boundary check
CanGzipSubstring(s) == Index(s, gzipWord) > 0

\* reGzip = (?:^|,)gzip(?:,|$) and CanGzip: the expression matches somewhere
\* in s; ^ and $ match only at the two ends of s (no multi-line flag)
CanGzip(s) ==
    \E i \in 1..(Len(s) - 3) :
        /\ SubSeq(s, i, i + 3) = gzipWord
        /\ (i = 1 \/ s[i - 1] = ",")
        /\ (i + 3 = Len(s) \/ s[i + 4] = ",")

\* CanGzipFast: the first occurrence of "gzip" found by strings.Index is
\* the only one looked at
CanGzipFast(s) ==
    LET pos == Index(s, gzipWord)
    IN /\ pos > 0
       /\ (pos = 1 \/ s[pos - 1] = ",")
       /\ (pos + 3 = Len(s) \/ s[pos + 4] = ",")

(***************************************************************************)
(* Types, as reflect sees them.  A type is a kind; a struct type is named  *)
(* and its fields are looked up in StructDefs; a pointer or a slice        *)
(* carries the kind (and struct name) of its element.                      *)
(***************************************************************************)
T(k) == [kind |-> k, elem |-> "", name |-> ""]
TStruct(n) == [kind |-> "struct", elem |-> "", name |-> n]
TPtr(k, n) == [kind |-> "ptr", elem |-> k, name |-> n]
TSlice(k) == [kind |-> "slice", elem |-> k, name |-> ""]
TSliceOf(n) == [kind |-> "slice", elem |-> "struct", name |-> n]

\* reflect.Type.Elem
Elem(t) == [kind |-> t.elem, elem |-> "", name |-> t.name]

\* a struct tag that holds a number: absent, a decimal integer, or other text
NoTag == [set |-> FALSE, num |-> FALSE, val |-> 0]
NumTag(n) == [set |-> TRUE, num |-> TRUE, val |-> n]
TextTag == [set |-> TRUE, num |-> FALSE, val |-> 0]

\* a pattern tag: absent, or a regular expression given by its items, each
\* an atom repeated between min and max times (max = -1: no upper limit);
\* ok = FALSE is text that regexp.Compile rejects
NoPattern == [set |-> FALSE, ok |-> TRUE, items |-> <<>>]
Pattern(items) == [set |-> TRUE, ok |-> TRUE, items |-> items]
BadPattern == [set |-> TRUE, ok |-> FALSE, items |-> <<>>]

\* the pattern .{2,} of ReqV1.StrParam
TwoOrMore == Pattern(<<[atom |-> "any", min |-> 2, max |-> -1]>>)

Field(name, json, type, minimum, maximum, pattern) ==
    [Name |-> name, json |-> json, Type |-> type,
     minimum |-> minimum, maximum |-> maximum, pattern |-> pattern,
     tagged |-> json # "", exported |-> TRUE]

Plain(name, json, type) == Field(name, json, type, NoTag, NoTag, NoPattern)
\* a field whose json tag names no key, as in `json:",omitempty"`
NameLess(name, type) == [Plain(name, "", type) EXCEPT !.tagged = TRUE]
\* a field that is not exported and has no json tag
Unexported(name, type) == [Plain(name, "", type) EXCEPT !.exported = FALSE]

\* the struct types of the test service (package hello) and of the two
\* further services used as registration inputs
StructDefs ==
    [ReqV1 |-> <<Field("IntParam", "int_param", T("int"), NumTag(100), NumTag(200), NoPattern),
                 Field("StrParam", "str_param", T("string"), NoTag, NoTag, TwoOrMore),
                 Plain("ArrParam", "arr_param", TSlice("string")),
                 Plain("StructParam", "struct_param", TStruct("StructV1")),
                 Plain("StructPtrParam", "struct_ptr_param", TPtr("struct", "StructV1")),
                 Plain("WithErr", "with_err", T("bool"))>>,
     StructV1 |-> <<Field("F1", "f1", T("uint"), NumTag(1), NumTag(200), NoPattern)>>,
     RespV1 |-> <<Plain("Message", "message", T("string")),
                  Plain("Data", "data", TStruct("DataV1"))>>,
     DataV1 |-> <<Plain("Int", "int", T("int")), Plain("Str", "str", T("string"))>>,
     ReqV2 |-> <<Plain("IntParam", "int_param", T("int"))>>,
     ReqV3 |-> <<Plain("IntParam", "int_param", T("int")),
                 Plain("Content", "content", T("file"))>>,
     RespV3 |-> <<Plain("IntParam", "int_param", T("int")),
                  Plain("ContentLength", "content_length", T("int"))>>,
     ReqGeo |-> <<Field("Lat", "lat", T("int"), NumTag(-1), NumTag(1), NoPattern),
                  Field("Zoom", "zoom", T("uint"), NoTag, NumTag(2), NoPattern)>>,
     RespGeo |-> <<Plain("Ok", "ok", T("bool"))>>,
     ReqBadMin |-> <<Field("A", "a", T("int"), TextTag, NoTag, NoPattern)>>,
     ReqBadUint |-> <<Field("U", "u", T("uint"), NumTag(-1), NoTag, NoPattern)>>,
     ReqBadPattern |-> <<Field("S", "s", T("string"), NoTag, NoTag, BadPattern)>>,
     Error |-> <<Plain("Code", "code", T("string")), Plain("Message", "message", T("string")),
                 Plain("Data", "data", T("interface"))>>,
     Node |-> <<Plain("Value", "value", T("int")),
                Plain("Next", "next", TPtr("struct", "Node"))>>,
     Branch |-> <<Plain("Kids", "kids", TSliceOf("Branch"))>>,
     Ping |-> <<Plain("Pong", "pong", TPtr("struct", "Pong"))>>,
     Pong |-> <<Plain("Ping", "ping", TStruct("Ping"))>>,
     Item |-> <<Field("Id", "id", T("int"), NumTag(1), NumTag(9), NoPattern),
                Unexported("secret", T("string")),
                Plain("Skip", "-", T("string")),
                NameLess("Note", T("string")),
                Plain("Title", "", T("string"))>>,
     item |-> <<Plain("Ok", "ok", T("bool"))>>,
     ReqAB |-> <<Plain("X", "x", T("int"))>>,
     ReqA_B |-> <<Plain("Y", "y", T("string"))>>,
     Form |-> <<Plain("Opts", "opts", TStruct("AnonA")),
                Plain("Extra", "extra", TStruct("AnonB"))>>,
     AnonA |-> <<Plain("A", "a", T("int"))>>,
     AnonB |-> <<Plain("B", "b", T("string"))>>]

\* reflect.Type.PkgPath, Name and String of the struct types; an anonymous
\* struct has neither package path nor name
Named(pkg, name) == [PkgPath |-> pkg, Name |-> name, String |-> pkg \o <<".">> \o name]
Anonymous(str) == [PkgPath |-> <<>>, Name |-> <<>>, String |-> str]

pkgHello == <<"m","/","h","e","l","l","o">>
pkgGeo == <<"m","/","G","e","o">>
pkgB == <<"m","/","b">>

StructTypes ==
    [ReqV1 |-> Named(pkgHello, <<"R","e","q","V","1">>), StructV1 |-> Named(pkgHello, <<"S","t","r","u","c","t","V","1">>),
     RespV1 |-> Named(pkgHello, <<"R","e","s","p","V","1">>), DataV1 |-> Named(pkgHello, <<"D","a","t","a","V","1">>),
     ReqV2 |-> Named(pkgHello, <<"R","e","q","V","2">>), ReqV3 |-> Named(pkgHello, <<"R","e","q","V","3">>),
     RespV3 |-> Named(pkgHello, <<"R","e","s","p","V","3">>),
     ReqGeo |-> Named(pkgGeo, <<"R","e","q","G","e","o">>), RespGeo |-> Named(pkgGeo, <<"R","e","s","p","G","e","o">>),
     ReqBadMin |-> Named(pkgB, <<"R","e","q","B","a","d","M","i","n">>), ReqBadUint |-> Named(pkgB, <<"R","e","q","B","a","d","U","i","n","t">>),
     ReqBadPattern |-> Named(pkgB, <<"R","e","q","B","a","d","P","a","t","t","e","r","n">>),
     Error |-> Named(<<"r","p","c">>, <<"E","r","r","o","r">>),
     Node |-> Named(<<"m","/","t","r","e","e">>, <<"N","o","d","e">>),
     Branch |-> Named(<<"m","/","t","r","e","e">>, <<"B","r","a","n","c","h">>),
     Ping |-> Named(<<"m","/","p","p">>, <<"P","i","n","g">>), Pong |-> Named(<<"m","/","p","p">>, <<"P","o","n","g">>),
     Item |-> Named(<<"m","/","s","h","o","p">>, <<"I","t","e","m">>),
     item |-> Named(<<"m","/","s","h","o","p">>, <<"i","t","e","m">>),
     ReqAB |-> Named(<<"m","/","a","/","b">>, <<"R","e","q">>),
     ReqA_B |-> Named(<<"m","/","a","_","b">>, <<"R","e","q">>),
     Form |-> Named(<<"m","/","f">>, <<"F","o","r","m">>),
     AnonA |-> Anonymous(<<"{","A","}">>), AnonB |-> Anonymous(<<"{","B","}">>)]

(***************************************************************************)
(* Constraint rules                                                        *)
(***************************************************************************)
\* an atom "." that matches every character, newline too
AtomMatchesDotAll(atom, c) == IF atom = "any" THEN TRUE ELSE c = atom

\* what a regular-expression atom matches: "." is any character but newline
AtomMatches(atom, c) == IF atom = "any" THEN c # "\n" ELSE c = atom

\* items k.. of a pattern match at position i of s
RECURSIVE MatchItems(_, _, _, _)
MatchItems(items, k, s, i) ==
    IF k > Len(items) THEN TRUE
    ELSE LET it == items[k]
             avail == Len(s) - i + 1
             most == IF it.max < 0 \/ it.max > avail THEN avail ELSE it.max
         IN \E n \in it.min..most :
                /\ \A j \in 0..(n - 1) : AtomMatches(it.atom, s[i + j])
                /\ MatchItems(items, k + 1, s, i + n)

\* regexp.Regexp.MatchString: the expression matches somewhere in s
MatchString(items, s) == \E i \in 1..(Len(s) + 1) : MatchItems(items, 1, s, i)

NoValue == [err |-> FALSE, nil |-> TRUE, val |-> 0]
ParseError == [err |-> TRUE, nil |-> TRUE, val |-> 0]

\* strconv.ParseInt(t, 10, 64) of a tag that is present
ParseIntTag(tag) ==
    IF tag.num THEN [err |-> FALSE, nil |-> FALSE, val |-> tag.val] ELSE ParseError

\* strconv.ParseUint(t, 10, 64) of a tag that is present
ParseUintTag(tag) ==
    IF tag.num /\ tag.val >= 0 THEN [err |-> FALSE, nil |-> FALSE, val |-> tag.val]
    ELSE ParseError

\* vMinimumInt.GetValue, vMinimumUint.GetValue, vMaximumInt.GetValue
vMinimumIntGetValue(f) == IF f.minimum.set THEN ParseIntTag(f.minimum) ELSE NoValue
vMinimumUintGetValue(f) == IF f.minimum.set THEN ParseUintTag(f.minimum) ELSE NoValue
vMaximumIntGetValue(f) == IF f.maximum.set THEN ParseIntTag(f.maximum) ELSE NoValue

\* vPattern.GetValue: "" (nil here) when the tag is absent or empty
vPatternGetValue(f) ==
    IF ~f.pattern.set THEN [err |-> FALSE, nil |-> TRUE, val |-> <<>>]
    ELSE IF ~f.pattern.ok THEN [err |-> TRUE, nil |-> TRUE, val |-> <<>>]
    ELSE [err |-> FALSE, nil |-> f.pattern.items = <<>>, val |-> f.pattern.items]

\* the name a validator's message gives the field: the json tag if present
MsgName(f) == IF f.json # "" THEN f.json ELSE f.Name

\* validator.GetValidateFunc: the compiled predicate, nil when the field does
\* not declare the constraint, or the tag's parse error
GetValidateFunc(v, f) ==
    LET got == CASE v = "vMinimumInt" -> vMinimumIntGetValue(f)
                 [] v = "vMinimumUint" -> vMinimumUintGetValue(f)
                 [] v = "vMaximumInt" -> vMaximumIntGetValue(f)
                 [] v = "vPattern" -> vPatternGetValue(f)
    IN [err |-> got.err, nil |-> got.nil,
        fn |-> [rule |-> v, target |-> got.val, name |-> MsgName(f)]]

NoErr == [fail |-> FALSE, rule |-> "", name |-> ""]

\* a compiled validateFunc whose bounds are exclusive
ValidateExclusive(fn, val) ==
    LET bad == CASE fn.rule = "vMinimumInt" -> val <= fn.target
                 [] fn.rule = "vMinimumUint" -> val <= fn.target
                 [] fn.rule = "vMaximumInt" -> val >= fn.target
                 [] fn.rule = "vPattern" -> ~MatchString(fn.target, val)
    IN IF bad THEN [fail |-> TRUE, rule |-> fn.rule, name |-> fn.name] ELSE NoErr

\* a compiled validateFunc that passes a field left at its zero value
ValidatePresent(fn, val) ==
    LET zero == IF fn.rule = "vPattern" THEN val = <<>> ELSE val = 0
        bad == CASE fn.rule = "vMinimumInt" -> val < fn.target
                 [] fn.rule = "vMinimumUint" -> val < fn.target
                 [] fn.rule = "vMaximumInt" -> val > fn.target
                 [] fn.rule = "vPattern" -> ~MatchString(fn.target, val)
    IN IF bad /\ ~zero THEN [fail |-> TRUE, rule |-> fn.rule, name |-> fn.name] ELSE NoErr

\* a compiled validateFunc applied to a field's value
Validate(fn, val) ==
    LET bad == CASE fn.rule = "vMinimumInt" -> val < fn.target
                 [] fn.rule = "vMinimumUint" -> val < fn.target
                 [] fn.rule = "vMaximumInt" -> val > fn.target
                 [] fn.rule = "vPattern" -> ~MatchString(fn.target, val)
    IN IF bad THEN [fail |-> TRUE, rule |-> fn.rule, name |-> fn.name] ELSE NoErr

intValidators == <<"vMinimumInt", "vMaximumInt">>
uintValidators == <<"vMinimumUint", "vMinimumUint">>

\* the validators table, by reflect.Kind
validators(kind) ==
    CASE kind = "int" -> intValidators
      [] kind = "uint" -> uintValidators
      [] kind = "string" -> <<"vPattern">>
      [] OTHER -> <<>>

(***************************************************************************)
(* Maps                                                                    *)
(***************************************************************************)
EmptyMap == <<>>
Put(m, k, v) == [x \in DOMAIN m \cup {k} |-> IF x = k THEN v ELSE m[x]]
Has(m, k) == k \in DOMAIN m

(***************************************************************************)
(* Services: what reflect reports of a value registered as a Method.  The  *)
(* method set is in name order; NumIn counts the receiver.                 *)
(***************************************************************************)
GoMethod(name, numIn, in1, in2, numOut, out0, out1) ==
    [Name |-> name, NumIn |-> numIn, In1 |-> in1, In2 |-> in2,
     NumOut |-> numOut, Out0 |-> out0, Out1 |-> out1,
     errPtr |-> FALSE, errFields |-> <<>>]

\* a V<N> method with the expected parameters and results
Version(name, req, resp) ==
    GoMethod(name, 3, "context.Context", req, 2, resp, "error")

\* an ErrorsV<N> accessor: whether it returns a pointer to a struct, and the
\* fields of that struct (name, whether of type rpc.ErrorFunc, desc tag)
Accessor(name, isPtr, fields) ==
    [Name |-> name, NumIn |-> 1, In1 |-> "", In2 |-> T("none"),
     NumOut |-> 1, Out0 |-> T("interface"), Out1 |-> "",
     errPtr |-> isPtr, errFields |-> fields]

ErrField(name, desc) == [Name |-> name, isErrorFunc |-> TRUE, desc |-> desc]
OtherField(name) == [Name |-> name, isErrorFunc |-> FALSE, desc |-> ""]

nCaption == <<"C","a","p","t","i","o","n">>
nDescription == <<"D","e","s","c","r","i","p","t","i","o","n">>
nErrorsV == <<"E","r","r","o","r","s","V">>
nV1 == <<"V","1">>
nV2 == <<"V","2">>
nV3 == <<"V","3">>

Caption == GoMethod(nCaption, 2, "context.Context", T("none"), 1, T("string"), "")
Description == GoMethod(nDescription, 2, "context.Context", T("none"), 1, T("string"), "")

Service(id, pkg, ms) == [id |-> id, PkgPath |-> pkg, methods |-> ms]

pkgRoot == <<"m">>

\* package hello of the repository: V1, V2 (whose first result is an int),
\* V3 and ErrorsV1
Hello ==
    Service("hello", pkgRoot \o <<"/","h","e","l","l","o">>,
        <<Caption, Description,
          Accessor(nErrorsV \o <<"1">>, TRUE,
                   <<ErrField("Error1", "Error 1"), ErrField("Error2", "Error 2"),
                     ErrField("Error3", "Error 3")>>),
          Version(nV1, TPtr("struct", "ReqV1"), TPtr("struct", "RespV1")),
          Version(nV2, TPtr("struct", "ReqV2"), T("int")),
          Version(nV3, TPtr("struct", "ReqV3"), TPtr("struct", "RespV3"))>>)

\* a well-formed service in a package whose path has an upper-case letter
Geo ==
    Service("geo", pkgRoot \o <<"/","G","e","o">>,
        <<Caption, Description,
          Accessor(nErrorsV \o <<"1">>, TRUE, <<ErrField("NotFound", "")>>),
          Version(nV1, TPtr("struct", "ReqGeo"), TPtr("struct", "RespGeo"))>>)

\* services that differ from a well-formed one in one respect
Bad(id, ms) == Service(id, pkgRoot \o <<"/","b">>, <<Caption, Description>> \o ms)

Outside == Service("outside", <<"x","/","o">>,
                   <<Caption, Description,
                     Version(nV1, TPtr("struct", "ReqV2"), TPtr("struct", "RespGeo"))>>)
NoRequest == Bad("norequest",
    <<GoMethod(nV1, 2, "context.Context", T("none"), 2, TPtr("struct", "RespGeo"), "error")>>)
NoContext == Bad("nocontext",
    <<GoMethod(nV1, 3, "string", TPtr("struct", "ReqV2"), 2, TPtr("struct", "RespGeo"), "error")>>)
NoError == Bad("noerror",
    <<Version(nV1, TPtr("struct", "ReqV2"), TPtr("struct", "RespGeo")),
      GoMethod(nV2, 3, "context.Context", TPtr("struct", "ReqV2"), 1, TPtr("struct", "RespGeo"), "")>>)
LastNotError == Bad("lastnoterror",
    <<GoMethod(nV1, 3, "context.Context", TPtr("struct", "ReqV2"), 2, TPtr("struct", "RespGeo"), "bool")>>)
ValueRequest == Bad("valuerequest",
    <<Version(nV1, TStruct("ReqV2"), TPtr("struct", "RespGeo"))>>)
IntRequest == Bad("intrequest",
    <<Version(nV1, TPtr("int", ""), TPtr("struct", "RespGeo"))>>)
ValueResponse == Bad("valueresponse",
    <<Version(nV1, TPtr("struct", "ReqV2"), TStruct("RespGeo"))>>)
BadMin == Bad("badmin",
    <<Version(nV1, TPtr("struct", "ReqBadMin"), TPtr("struct", "RespGeo"))>>)
BadUint == Bad("baduint",
    <<Version(nV1, TPtr("struct", "ReqBadUint"), TPtr("struct", "RespGeo"))>>)
BadPatternSvc == Bad("badpattern",
    <<Version(nV1, TPtr("struct", "ReqBadPattern"), TPtr("struct", "RespGeo"))>>)
ErrorsNoMethod == Bad("errorsnomethod",
    <<Accessor(nErrorsV \o <<"2">>, TRUE, <<ErrField("Gone", "Gone")>>),
      Version(nV1, TPtr("struct", "ReqV2"), TPtr("struct", "RespGeo"))>>)
ErrorsNotPtr == Bad("errorsnotptr",
    <<Accessor(nErrorsV \o <<"1">>, FALSE, <<ErrField("E1", "e1")>>),
      Version(nV1, TPtr("struct", "ReqV2"), TPtr("struct", "RespGeo"))>>)
ErrorsBadField == Bad("errorsbadfield",
    <<Accessor(nErrorsV \o <<"1">>, TRUE, <<ErrField("E1", "e1"), OtherField("E2")>>),
      Version(nV1, TPtr("struct", "ReqV2"), TPtr("struct", "RespGeo"))>>)

Services == {Hello, Geo, Outside, NoRequest, NoContext, NoError, LastNotError,
             ValueRequest, IntRequest, ValueResponse, BadMin, BadUint,
             BadPatternSvc, ErrorsNoMethod, ErrorsNotPtr, ErrorsBadField}

TrimPrefixes == {pkgRoot, pkgRoot \o <<"/">>, <<>>}

\* services whose types try the projections: fields that are unexported,
\* tagged "-" or tagged without a name (Shop); a response type that differs
\* from the request type in the case of its name only (Cases); request types
\* of the same name in the packages m/a/b and m/a_b (SvcAB, SvcA_B); two
\* anonymous struct types (FormSvc); a struct that points to itself (Tree)
Shop ==
    Service("shop", StructTypes.Item.PkgPath,
        <<Caption, Description,
          Version(nV1, TPtr("struct", "Item"), TPtr("struct", "RespGeo"))>>)
Cases ==
    Service("cases", <<"m","/","c","a","s","e","s">>,
        <<Caption, Description,
          Version(nV1, TPtr("struct", "Item"), TPtr("struct", "item"))>>)
SvcAB ==
    Service("ab", StructTypes.ReqAB.PkgPath,
        <<Caption, Description,
          Version(nV1, TPtr("struct", "ReqAB"), TPtr("struct", "RespGeo"))>>)
SvcA_B ==
    Service("a_b", StructTypes.ReqA_B.PkgPath,
        <<Caption, Description,
          Version(nV1, TPtr("struct", "ReqA_B"), TPtr("struct", "RespGeo"))>>)
FormSvc ==
    Service("form", StructTypes.Form.PkgPath,
        <<Caption, Description,
          Version(nV1, TPtr("struct", "Form"), TPtr("struct", "RespGeo"))>>)
Tree ==
    Service("tree", StructTypes.Node.PkgPath,
        <<Caption, Description,
          Version(nV1, TPtr("struct", "Node"), TPtr("struct", "RespGeo"))>>)
\* a struct that holds a slice of itself

Forest ==
    Service("forest", StructTypes.Branch.PkgPath,
        <<Caption, Description,
          Version(nV1, TPtr("struct", "Branch"), TPtr("struct", "RespGeo"))>>)

DocServices == {Hello, Shop, Cases, SvcAB, SvcA_B, FormSvc, Tree, Forest}

(***************************************************************************)
(* Projections: the OpenAPI document                                       *)
(***************************************************************************)
\* strings.ReplaceAll(s, old, "_") for a one-character old
ReplaceAll(s, old) == [i \in 1..Len(s) |-> IF s[i] = old THEN "_" ELSE s[i]]

\* Rpc.typeName: the key of a struct type in components.schemas
typeName(t) ==
    LET st == StructTypes[t.name]
        full == TrimPrefix(st.PkgPath, trimPrefix) \o <<"/">> \o st.Name
    IN ToLower(ReplaceAll(ReplaceAll(ReplaceAll(TrimPrefix(full, <<"/">>), "/"), "."), "-"))

\* openapi.Schema; items holds the schema of a slice's elements, if any
NoBound == [set |-> FALSE, val |-> 0]
Bound(v) == [set |-> TRUE, val |-> v]
Schema(type, format) ==
    [type |-> type, format |-> format, ref |-> <<>>, items |-> <<>>,
     properties |-> EmptyMap, minimum |-> NoBound, maximum |-> NoBound,
     pattern |-> NoPattern]
RefSchema(name) == [Schema("", "") EXCEPT !.ref = name]

\* validator.ToSwaggerSchema of vMinimumInt, vMinimumUint, vMaximumInt and
\* vPattern: each of the three numeric ones writes schema.Minimum
ToSwaggerSchema(v, f, schema) ==
    LET got == GetValidateFunc(v, f)
    IN IF got.err THEN [err |-> TRUE, schema |-> schema]
       ELSE IF got.nil THEN [err |-> FALSE, schema |-> schema]
       ELSE [err |-> FALSE,
             schema |-> CASE v = "vMinimumInt" ->
                               [schema EXCEPT !.minimum = Bound(got.fn.target)]
                          [] v = "vMinimumUint" ->
                               [schema EXCEPT !.minimum = Bound(got.fn.target)]
                          [] v = "vMaximumInt" ->
                               [schema EXCEPT !.minimum = Bound(got.fn.target)]
                          [] v = "vPattern" ->
                               [schema EXCEPT !.pattern = Pattern(got.fn.target)]]

\* addFieldRestrictions: the validators of the field's kind write their
\* values into the field's schema
RECURSIVE restrictFrom(_, _, _, _)
restrictFrom(vs, k, f, schema) ==
    IF k > Len(vs) THEN [err |-> FALSE, schema |-> schema]
    ELSE With(ToSwaggerSchema(vs[k], f, schema),
              LAMBDA r : IF r.err THEN r ELSE restrictFrom(vs, k + 1, f, r.schema))

addFieldRestrictions(f, schema) == restrictFrom(validators(f.Type.kind), 1, f, schema)

\* the name getSchema gives a field's property: the field name, or the json
\* tag up to its first comma when the field has a json tag
SchemaFieldName(f) == IF f.tagged THEN f.json ELSE f.Name

\* what getSchema returns: the schema, the storage, and how it ended
\* ("ok", "panic", or "overflow" when the recursion never ends)
Got(schema, storage) == [schema |-> schema, storage |-> storage, outcome |-> "ok"]
Ended(outcome, storage) == [schema |-> Schema("", ""), storage |-> storage, outcome |-> outcome]

\* Rpc.getSchema.  A struct is stored after its fields have been visited;
\* stack holds the structs whose fields are being visited, and a struct met
\* again while on the stack and not in the storage is visited without end.
RECURSIVE getSchema(_, _, _), schemaFields(_, _, _, _, _, _)
getSchema(t, storage, stack) ==
    CASE t.kind = "ptr" -> getSchema(Elem(t), storage, stack)
      [] t.kind = "string" -> Got(Schema("string", ""), storage)
      [] t.kind \in {"int", "uint"} -> Got(Schema("integer", "int64"), storage)
      [] t.kind = "bool" -> Got(Schema("boolean", ""), storage)
      [] t.kind = "slice" ->
            With(getSchema(Elem(t), storage, stack), LAMBDA r :
               IF r.outcome # "ok" THEN r
               ELSE Got([Schema("array", "") EXCEPT !.items = <<r.schema>>], r.storage))
      [] t.kind = "struct" ->
            LET name == typeName(t)
            IN IF Has(storage, name) THEN Got(RefSchema(name), storage)
               ELSE IF t.name \in stack THEN Ended("overflow", storage)
               ELSE With(schemaFields(StructDefs[t.name], 1, storage, stack \cup {t.name},
                                      EmptyMap, EmptyMap),
                         LAMBDA r :
                            IF r.outcome # "ok" THEN Ended(r.outcome, r.storage)
                            ELSE LET schema ==
                                        IF r.file # EmptyMap
                                        THEN [Schema("object", "") EXCEPT !.properties =
                                                Put(r.file, "json_data",
                                                    [Schema("object", "") EXCEPT
                                                        !.properties = r.json])]
                                        ELSE [Schema("object", "") EXCEPT !.properties = r.json]
                                 IN Got(RefSchema(name), Put(r.storage, name, schema)))
      [] t.kind = "file" -> Got(Schema("string", "binary"), storage)
      [] t.kind = "interface" -> Got(Schema("object", ""), storage)
      [] OTHER -> Ended("panic", storage)

schemaFields(fields, i, storage, stack, json, file) ==
    IF i > Len(fields)
    THEN [outcome |-> "ok", storage |-> storage, json |-> json, file |-> file]
    ELSE LET f == fields[i]
             name == SchemaFieldName(f)
         IN IF ~f.exported \/ name = "-"
            THEN schemaFields(fields, i + 1, storage, stack, json, file)
            ELSE With(getSchema(f.Type, storage, stack), LAMBDA g :
                   IF g.outcome # "ok"
                   THEN [outcome |-> g.outcome, storage |-> g.storage,
                         json |-> json, file |-> file]
                   ELSE With(addFieldRestrictions(f, g.schema), LAMBDA a :
                          IF a.err
                          THEN [outcome |-> "panic", storage |-> g.storage,
                                json |-> json, file |-> file]
                          ELSE IF f.Type.kind = "file"
                          THEN With(Put(file, name, a.schema), LAMBDA next :
                                  schemaFields(fields, i + 1, g.storage, stack, json, next))
                          ELSE With(Put(json, name, a.schema), LAMBDA next :
                                  schemaFields(fields, i + 1, g.storage, stack, next, file))))

\* one of the orders in which a range over a Go map with the keys S may run
RECURSIVE SomeOrder(_)
SomeOrder(S) ==
    IF S = {} THEN <<>>
    ELSE LET x == CHOOSE y \in S : TRUE IN <<x>> \o SomeOrder(S \ {x})

\* orders in which a range over a Go map with the keys S may run: one
\* order, its rotations, and these reversed (all the orders when S has at
\* most three keys)
MapOrders(S) ==
    LET q == SomeOrder(S)
        n == Len(q)
        rot(k) == [i \in 1..n |-> q[((i + k - 1) % n) + 1]]
        rev(r) == [i \in 1..n |-> r[n + 1 - i]]
    IN IF n = 0 THEN {<<>>}
       ELSE {rot(k) : k \in 0..(n - 1)} \cup {rev(rot(k)) : k \in 0..(n - 1)}

\* GetSwagger: "multipart/form-data" when the request struct has a File field
requestContentType(structName) ==
    IF \E f \in Range(StructDefs[structName]) : f.Type.kind = "file"
    THEN "multipart/form-data" ELSE "application/json"

\* Rpc.GetSwagger with the methods ranged over in the given order: the
\* operation of each path and components.schemas, shared by all paths
RECURSIVE swaggerPaths(_, _, _, _, _)
swaggerPaths(ms, order, i, paths, storage) ==
    IF i > Len(order) THEN [outcome |-> "ok", paths |-> paths, schemas |-> storage]
    ELSE LET path == order[i]
             method == ms[path]
             crash(how, st) == [outcome |-> how, paths |-> paths, schemas |-> st]
         IN IF method.Request.kind # "ptr" \/ method.Request.elem # "struct"
            THEN crash("panic", storage)
            ELSE With(getSchema(method.Request, storage, {}), LAMBDA req :
                   IF req.outcome # "ok" THEN crash(req.outcome, req.storage)
                   ELSE With(getSchema(method.Response, req.storage, {}), LAMBDA resp :
                     IF resp.outcome # "ok" THEN crash(resp.outcome, resp.storage)
                     ELSE With(getSchema(TStruct("Error"), resp.storage, {}), LAMBDA e :
                       With(Put(paths, path,
                                [contentType |-> requestContentType(method.Request.name),
                                 request |-> req.schema,
                                 response |-> resp.schema,
                                 error |-> e.schema]),
                            LAMBDA next :
                               swaggerPaths(ms, order, i + 1, next, e.storage)))))

GetSwagger(ms, order) == swaggerPaths(ms, order, 1, EmptyMap, EmptyMap)

(***************************************************************************)
(* Projections: the TypeScript client                                      *)
(***************************************************************************)
\* the characters in the order of their byte values
ByteOrder ==
    <<"-", ".", "/", "0","1","2","3","4","5","6","7","8","9">> \o UpperChars \o
    <<"_">> \o LowerChars \o <<"{", "}">>

\* the place of a character in that order
ByteOf(c) == CHOOSE i \in DOMAIN ByteOrder : ByteOrder[i] = c

\* a < b as Go compares strings: byte by byte, a prefix before the longer
StringLess(a, b) ==
    \E k \in 1..(Len(b)) :
        /\ k <= Len(a) + 1
        /\ SubSeq(a, 1, k - 1) = SubSeq(b, 1, k - 1)
        /\ (k = Len(a) + 1 \/ ByteOf(a[k]) < ByteOf(b[k]))

\* slice kept in the order the strings come in
Unsorted(order) == order

\* sort.Strings: the strings of a slice in increasing order
RECURSIVE SortStrings(_)
SortStrings(order) ==
    IF order = <<>> THEN <<>>
    ELSE LET least == CHOOSE k \in DOMAIN order :
                         \A j \in DOMAIN order : ~StringLess(order[j], order[k])
         IN <<order[least]>> \o
            SortStrings([i \in 1..(Len(order) - 1) |->
                            IF i < least THEN order[i] ELSE order[i + 1]])

\* Rpc.GetPaths: the keys of r.methods, collected in the order the map
\* gives them and then sorted
GetPaths(order) == SortStrings(order)

ToUpperChar(c) ==
    IF \E i \in DOMAIN LowerChars : LowerChars[i] = c
    THEN UpperChars[CHOOSE i \in DOMAIN LowerChars : LowerChars[i] = c]
    ELSE c

\* the characters that end a word for strings.Title: neither letter, digit
\* nor underscore
IsSeparator(c) == c \in {"-", ".", "/", "{", "}"}

\* strings.Title: the first letter of every word in upper case
Title(s) ==
    [i \in 1..Len(s) |->
        IF i = 1 \/ IsSeparator(s[i - 1]) THEN ToUpperChar(s[i]) ELSE s[i]]

\* the method name of an operation: the parts of the path, the first
\* character of each in upper case, joined
RECURSIVE UpperFirstAll(_)
UpperFirstAll(parts) ==
    IF parts = <<>> THEN <<>>
    ELSE LET part == Head(parts)
         IN <<(<<ToUpperChar(part[1])>> \o Tail(part))>> \o UpperFirstAll(Tail(parts))

methodName(path) == Flatten(UpperFirstAll(Split(TrimPrefix(path, <<"/">>), "/")))

\* crc32.ChecksumIEEE: a checksum computed from the bytes of a string and
\* from nothing else; 16 bits of it are kept
RECURSIVE ChecksumIEEE(_, _)
ChecksumIEEE(str, sum) ==
    IF str = <<>> THEN sum
    ELSE ChecksumIEEE(Tail(str), (sum * 31 + ByteOf(Head(str))) % 65536)

HexDigits == <<"0","1","2","3","4","5","6","7","8","9","a","b","c","d","e","f">>

\* strconv.FormatUint(n, 16)
RECURSIVE FormatUint16(_)
FormatUint16(n) ==
    IF n < 16 THEN <<HexDigits[n + 1]>>
    ELSE FormatUint16(n \div 16) \o <<HexDigits[(n % 16) + 1]>>

RECURSIVE TitleAll(_)
TitleAll(parts) ==
    IF parts = <<>> THEN <<>> ELSE <<Title(Head(parts))>> \o TitleAll(Tail(parts))

\* toTsTypeName: the TypeScript name of a Go type
RECURSIVE toTsTypeName(_, _)
toTsTypeName(varType, prefix) ==
    CASE varType.kind = "slice" -> toTsTypeName(Elem(varType), prefix) \o <<"[]">>
      [] varType.kind = "struct" ->
            LET st == StructTypes[varType.name]
                typePrefix == Flatten(TitleAll(Split(TrimPrefix(st.PkgPath, prefix), "/")))
                sName == IF st.Name = <<>>
                         THEN <<"S","t","r","u","c","t","_">> \o
                              FormatUint16(ChecksumIEEE(st.String, 0))
                         ELSE st.Name
            IN typePrefix \o Title(sName)
      [] varType.kind = "ptr" -> toTsTypeName(Elem(varType), prefix)
      [] varType.kind = "string" -> <<"string">>
      [] varType.kind = "bool" -> <<"boolean">>
      [] varType.kind \in {"int", "uint"} -> <<"number">>
      [] varType.kind = "file" -> <<"File">>
      [] varType.kind = "interface" -> <<"unknown">>

\* addTsStructTypes: the table of the struct types met from st.  A struct
\* is entered and its fields are visited whether or not the table holds
\* it: stack holds the structs whose fields are being visited, and a struct
\* met again while on the stack is visited without end.
RECURSIVE addTsStructTypes(_, _, _, _), addTsFields(_, _, _, _, _)
addTsStructTypes(st, prefix, m, stack) ==
    CASE st.kind \in {"ptr", "slice"} -> addTsStructTypes(Elem(st), prefix, m, stack)
      [] st.kind = "struct" ->
            IF st.name \in stack THEN [outcome |-> "overflow", types |-> m]
            ELSE With(Put(m, toTsTypeName(st, prefix), st.name), LAMBDA next :
                    addTsFields(StructDefs[st.name], 1, prefix, next, stack \cup {st.name}))
      [] OTHER -> [outcome |-> "ok", types |-> m]

addTsFields(fields, i, prefix, m, stack) ==
    IF i > Len(fields) THEN [outcome |-> "ok", types |-> m]
    ELSE IF fields[i].json = "-" THEN addTsFields(fields, i + 1, prefix, m, stack)
    ELSE With(addTsStructTypes(fields[i].Type, prefix, m, stack), LAMBDA r :
            IF r.outcome # "ok" THEN r
            ELSE addTsFields(fields, i + 1, prefix, r.types, stack))

\* New: the name the declaration of a type gives a field
TsFieldName(f) == IF f.json = "" THEN f.Name ELSE f.json

\* New: the lines of the declaration of a struct type
RECURSIVE tsFields(_, _, _)
tsFields(fields, i, prefix) ==
    IF i > Len(fields) THEN <<>>
    ELSE IF TsFieldName(fields[i]) = "-" THEN tsFields(fields, i + 1, prefix)
    ELSE <<[name |-> TsFieldName(fields[i]),
            optional |-> fields[i].Type.kind = "ptr",
            type |-> toTsTypeName(fields[i].Type, prefix)]>>
         \o tsFields(fields, i + 1, prefix)

\* checkContentType
checkContentType(st) ==
    IF \E f \in Range(StructDefs[st.name]) : f.Type.kind = "file"
    THEN "multipart/form-data" ELSE "application/json"

\* New: the operations, one per path in the order of paths, and the table
\* of the struct types of their requests and responses
RECURSIVE tsMethods(_, _, _, _, _, _)
tsMethods(ms, paths, i, prefix, code, types) ==
    IF i > Len(paths) THEN [outcome |-> "ok", methods |-> code, types |-> types]
    ELSE LET m == ms[paths[i]]
             op == [name |-> methodName(paths[i]),
                    description |-> m.Method,
                    request |-> toTsTypeName(m.Request, prefix),
                    response |-> toTsTypeName(m.Response, prefix),
                    path |-> paths[i],
                    contentType |-> checkContentType(m.Request)]
         IN With(addTsStructTypes(m.Request, prefix, types, {}), LAMBDA req :
              IF req.outcome # "ok"
              THEN [outcome |-> req.outcome, methods |-> code, types |-> req.types]
              ELSE With(addTsStructTypes(m.Response, prefix, req.types, {}), LAMBDA resp :
                     IF resp.outcome # "ok"
                     THEN [outcome |-> resp.outcome, methods |-> code, types |-> resp.types]
                     ELSE tsMethods(ms, paths, i + 1, prefix, Append(code, op), resp.types)))

\* New: the declarations of the types in the order of typesNames
tsDeclarations(types, typesNames, prefix) ==
    [k \in DOMAIN typesNames |->
        [name |-> typesNames[k],
         fields |-> tsFields(StructDefs[types[typesNames[k]]], 1, prefix)]]

\* typescript.New: what the handler may write for a registry, the range
\* over r.methods (in GetPaths) and the range over the table of types
\* running in some order: the declarations of the types, then the operations
TsNew(ms, prefix) ==
    UNION {With(tsMethods(ms, paths, 1, prefix, <<>>, EmptyMap), LAMBDA r :
              IF r.outcome # "ok"
              THEN {[outcome |-> r.outcome, types |-> <<>>, methods |-> <<>>]}
              ELSE {[outcome |-> "ok",
                     types |-> tsDeclarations(r.types, typesNames, prefix),
                     methods |-> r.methods]
                    : typesNames \in {SortStrings(typeOrder) :
                                        typeOrder \in MapOrders(DOMAIN r.types)}})
           : paths \in {GetPaths(pathOrder) : pathOrder \in MapOrders(DOMAIN ms)}}

(***************************************************************************)
(* The method registry                                                     *)
(***************************************************************************)
AllDigits(s) == s # <<>> /\ \A i \in DOMAIN s : s[i] \in Digits

\* reMethodVersion = ^V\d+$
reMethodVersionMatch(name) == HasPrefix(name, <<"V">>) /\ AllDigits(Tail(name))

\* reErrorsVersion = ^ErrorsV(\d+)$
reErrorsVersionMatch(name) ==
    HasPrefix(name, nErrorsV) /\ AllDigits(TrimPrefix(name, nErrorsV))

\* getMethodPath: the package path with the prefix removed (its case is
\* kept), or the "invalid trim prefix" error
getMethodPath(m, prefix) ==
    LET tp == TrimSuffix(prefix, <<"/">>)
        path == m.PkgPath
    IN IF ~HasPrefix(path, tp) THEN [err |-> TRUE, path |-> <<>>]
       ELSE [err |-> FALSE, path |-> TrimPrefix(path, tp)]

\* the validators of one field appended to the map under the field's path
RECURSIVE compileField(_, _, _, _, _)
compileField(vs, k, field, vmap, path) ==
    IF k > Len(vs) THEN [err |-> FALSE, map |-> vmap]
    ELSE LET got == GetValidateFunc(vs[k], field)
             old == IF Has(vmap, path) THEN vmap[path] ELSE <<>>
         IN IF got.err THEN [err |-> TRUE, map |-> vmap]
            ELSE With(IF got.nil THEN vmap ELSE Put(vmap, path, Append(old, got.fn)),
                      LAMBDA next : compileField(vs, k + 1, field, next, path))

\* the structs the walk enters from the structs in names: those of their
\* struct fields and of their pointer to struct fields
RECURSIVE Entered(_, _)
Entered(names, seen) ==
    LET next == {f.Type.name : f \in {g \in UNION {Range(StructDefs[n]) : n \in names} :
                                        \/ g.Type.kind = "struct"
                                        \/ g.Type.kind = "ptr" /\ g.Type.elem = "struct"}}
    IN IF next \subseteq seen THEN seen ELSE Entered(next \ seen, seen \cup next)

\* the walk of a struct never ends when it enters a struct that it enters
\* again from that struct
Endless(t) ==
    /\ t.kind = "struct"
    /\ \E n \in {t.name} \cup Entered({t.name}, {}) : n \in Entered({n}, {})

\* getValidators: the walk of the request type that fills the validator
\* map.  Nothing stops the walk of a struct that holds itself in a struct
\* field or a pointer to struct field: the stack overflows.
RECURSIVE getValidators(_, _, _), getValidatorsOfFields(_, _, _, _)
getValidators(t, validatorsMap, curPath) ==
    CASE Endless(t) -> [err |-> TRUE, map |-> validatorsMap, overflow |-> TRUE]
      [] t.kind = "ptr" -> getValidators(Elem(t), validatorsMap, curPath)
      [] t.kind = "struct" ->
            getValidatorsOfFields(StructDefs[t.name], 1, validatorsMap, curPath)
      [] OTHER -> [err |-> FALSE, map |-> validatorsMap]

getValidatorsOfFields(fields, i, validatorsMap, curPath) ==
    IF i > Len(fields) THEN [err |-> FALSE, map |-> validatorsMap]
    ELSE LET field == fields[i]
             fieldType == IF field.Type.kind = "ptr" THEN Elem(field.Type) ELSE field.Type
             path == Append(curPath, field.Name)
         IN With(IF fieldType.kind = "struct"
                 THEN getValidators(field.Type, validatorsMap, path)
                 ELSE compileField(validators(field.Type.kind), 1, field, validatorsMap, path),
                 LAMBDA r : IF r.err THEN r
                            ELSE getValidatorsOfFields(fields, i + 1, r.map, curPath))

RegError(kind, name) == [err |-> TRUE, kind |-> kind, name |-> name, res |-> <<>>]

\* the signature check of descsFromMethod with the test of the error result
\* left out
SignatureOKNoErrorCheck(goMethod) ==
    /\ goMethod.NumIn = 3 /\ goMethod.In1 = "context.Context"
    /\ goMethod.NumOut = 2

\* the two signature checks descsFromMethod makes of a V<N> method
SignatureOK(goMethod) ==
    /\ goMethod.NumIn = 3 /\ goMethod.In1 = "context.Context"
    /\ goMethod.NumOut = 2 /\ goMethod.Out1 = "error"

\* the path descsFromMethod gives a descriptor, with the whole path
\* lower-cased
DescPathLowered(path, name) == ToLower(path \o <<"/">> \o name)

\* the path descsFromMethod gives a descriptor
DescPath(path, name) == path \o <<"/">> \o ToLower(name)

\* descsFromMethod: one descriptor per V<N> method, or the first error
RECURSIVE descsLoop(_, _, _, _)
descsLoop(m, path, i, res) ==
    IF i > Len(m.methods) THEN [err |-> FALSE, kind |-> "", name |-> <<>>, res |-> res]
    ELSE LET goMethod == m.methods[i]
         IN IF ~reMethodVersionMatch(goMethod.Name) THEN descsLoop(m, path, i + 1, res)
            ELSE IF ~SignatureOK(goMethod) THEN RegError("signature", goMethod.Name)
            ELSE With(getValidators(goMethod.In2, EmptyMap, <<>>),
                      LAMBDA v :
                        IF "overflow" \in DOMAIN v THEN RegError("overflow", <<>>)
                        ELSE IF v.err THEN RegError("tag", <<>>)
                        ELSE With(Append(res, [Path |-> DescPath(path, goMethod.Name),
                                               Method |-> m.id,
                                               Func |-> goMethod.Name,
                                               Request |-> goMethod.In2,
                                               Response |-> goMethod.Out0,
                                               Errors |-> EmptyMap,
                                               Validators |-> v.map]),
                                  LAMBDA next : descsLoop(m, path, i + 1, next)))

descsFromMethod(m, prefix) ==
    LET p == getMethodPath(m, prefix)
    IN IF p.err THEN RegError("prefix", <<>>) ELSE descsLoop(m, p.path, 1, <<>>)

\* bindErrors: for each ErrorsV<N> accessor, the catalog of the descriptor
\* at <path>/v<N> and the constructors stored in the accessor's structure.
\* What is written before an error or a panic stays written.
RECURSIVE bindFields(_, _, _, _, _, _), bindLoop(_, _, _, _, _)
bindFields(m, digits, methodPath, j, ms, ev) ==
    LET fields == (CHOOSE g \in Range(m.methods) : g.Name = nErrorsV \o digits).errFields
    IN IF j > Len(fields) THEN [outcome |-> "ok", methods |-> ms, errVars |-> ev]
       ELSE LET ft == fields[j]
            IN IF ~ft.isErrorFunc
               THEN [outcome |-> "error", methods |-> ms, errVars |-> ev]
               ELSE IF ~Has(ms, methodPath)
               THEN [outcome |-> "panic", methods |-> ms, errVars |-> ev]
               ELSE With(<<[ms EXCEPT ![methodPath].Errors = Put(@, ft.Name, ft.desc)],
                           Put(ev, <<m.id, digits, ft.Name>>, ft.Name)>>,
                         LAMBDA next :
                            bindFields(m, digits, methodPath, j + 1, next[1], next[2]))

bindLoop(m, path, i, ms, ev) ==
    IF i > Len(m.methods) THEN [outcome |-> "ok", methods |-> ms, errVars |-> ev]
    ELSE LET goMethod == m.methods[i]
         IN IF ~reErrorsVersionMatch(goMethod.Name) THEN bindLoop(m, path, i + 1, ms, ev)
            ELSE IF ~goMethod.errPtr
            THEN [outcome |-> "error", methods |-> ms, errVars |-> ev]
            ELSE LET digits == TrimPrefix(goMethod.Name, nErrorsV)
                     methodPath == path \o <<"/", "v">> \o digits
                 IN With(bindFields(m, digits, methodPath, 1, ms, ev),
                         LAMBDA b : IF b.outcome # "ok" THEN b
                                    ELSE bindLoop(m, path, i + 1, b.methods, b.errVars))

bindErrors(m, prefix, ms, ev) ==
    LET p == getMethodPath(m, prefix)
    IN IF p.err THEN [outcome |-> "error", methods |-> ms, errVars |-> ev]
       ELSE bindLoop(m, p.path, 1, ms, ev)

\* GetSwagger, as far as RegisterMethod depends on it: it panics on a
\* descriptor whose request type is not a pointer to a struct, and it may
\* panic or never end while building the schemas
GetSwaggerPanics(ms) ==
    \/ \E path \in DOMAIN ms :
          ms[path].Request.kind # "ptr" \/ ms[path].Request.elem # "struct"
    \/ GetSwagger(ms, SomeOrder(DOMAIN ms)).outcome # "ok"

\* r.methods[md.Path] = md for each descriptor in turn
RECURSIVE storeDescs(_, _)
storeDescs(ms, mds) ==
    IF mds = <<>> THEN ms
    ELSE With(Put(ms, Head(mds).Path, Head(mds)), LAMBDA next : storeDescs(next, Tail(mds)))

RegResult(svc, result, kind, name) ==
    [svc |-> svc, result |-> result, kind |-> kind, name |-> name]

\* Rpc.RegisterMethod: the registry, the error structures and the result
\* after registering one service
RegisterMethodOn(method, prefix, ms, ev) ==
    With(descsFromMethod(method, prefix), LAMBDA d :
       IF d.err
       THEN [methods |-> ms, errVars |-> ev,
             reg |-> RegResult(method.id, IF d.kind = "overflow" THEN "panic" ELSE "error",
                               d.kind, d.name)]
       ELSE With(bindErrors(method, prefix, storeDescs(ms, d.res), ev), LAMBDA b :
               IF b.outcome = "error"
               THEN [methods |-> b.methods, errVars |-> b.errVars,
                     reg |-> RegResult(method.id, "error", "errors", <<>>)]
               ELSE IF b.outcome = "panic"
               THEN [methods |-> b.methods, errVars |-> b.errVars,
                     reg |-> RegResult(method.id, "panic", "nil descriptor", <<>>)]
               ELSE IF GetSwaggerPanics(b.methods)
               THEN [methods |-> b.methods, errVars |-> b.errVars,
                     reg |-> RegResult(method.id, "panic", "swagger", <<>>)]
               ELSE [methods |-> b.methods, errVars |-> b.errVars,
                     reg |-> RegResult(method.id, "ok", "", <<>>)]))

\* Rpc.RegisterMethods
RECURSIVE RegisterMethodsOn(_, _, _, _)
RegisterMethodsOn(ss, prefix, ms, ev) ==
    IF ss = <<>> THEN [methods |-> ms, errVars |-> ev]
    ELSE With(RegisterMethodOn(Head(ss), prefix, ms, ev), LAMBDA r :
            IF r.reg.result # "ok" THEN [methods |-> r.methods, errVars |-> r.errVars]
            ELSE RegisterMethodsOn(Tail(ss), prefix, r.methods, r.errVars))

NoReg == RegResult("", "none", "", <<>>)

(***************************************************************************)
(* Request values and JSON decoding.  A struct value is a function from    *)
(* field names; a pointer is nil or holds a value; a JSON document is a    *)
(* tree of JSON values.                                                    *)
(***************************************************************************)
NilPtr == [nil |-> TRUE, v |-> <<>>]
PtrTo(v) == [nil |-> FALSE, v |-> v]
NilFile == [nil |-> TRUE, backing |-> "", id |-> 0, size |-> 0, data |-> <<>>]

FieldNames(name) == {StructDefs[name][i].Name : i \in DOMAIN StructDefs[name]}
FieldByName(name, fn) == CHOOSE f \in Range(StructDefs[name]) : f.Name = fn

\* the zero value of a type: what reflect.New allocates
RECURSIVE Zero(_)
Zero(t) ==
    CASE t.kind = "int" -> 0
      [] t.kind = "uint" -> 0
      [] t.kind = "string" -> <<>>
      [] t.kind = "bool" -> FALSE
      [] t.kind = "slice" -> <<>>
      [] t.kind = "ptr" -> NilPtr
      [] t.kind = "file" -> NilFile
      [] t.kind = "struct" ->
            [fn \in FieldNames(t.name) |-> Zero(FieldByName(t.name, fn).Type)]

JNum(n) == [t |-> "num", n |-> n, s |-> <<>>, b |-> FALSE, o |-> <<>>]
JStr(s) == [t |-> "str", n |-> 0, s |-> s, b |-> FALSE, o |-> <<>>]
JBool(b) == [t |-> "bool", n |-> 0, s |-> <<>>, b |-> b, o |-> <<>>]
JArr(s) == [t |-> "arr", n |-> 0, s |-> s, b |-> FALSE, o |-> <<>>]
JObj(o) == [t |-> "obj", n |-> 0, s |-> <<>>, b |-> FALSE, o |-> o]
JNull == [t |-> "null", n |-> 0, s |-> <<>>, b |-> FALSE, o |-> <<>>]

\* the key encoding/json looks up for a field: the json tag, else the name
JsonKey(f) == IF f.json # "" THEN f.json ELSE f.Name

\* encoding/json storing one JSON value into a Go value of type t: the new
\* value and whether an UnmarshalTypeError was recorded.  null leaves a
\* non-pointer alone; an object is decoded into the struct field by field
\* and a key that is absent leaves its field as it was.
RECURSIVE DecodeValue(_, _, _), DecodeFields(_, _, _, _, _)
DecodeValue(val, t, jv) ==
    IF jv.t = "null"
    THEN [err |-> FALSE, val |-> IF t.kind = "ptr" THEN NilPtr ELSE val]
    ELSE CASE t.kind = "int" ->
                IF jv.t = "num" THEN [err |-> FALSE, val |-> jv.n]
                ELSE [err |-> TRUE, val |-> val]
           [] t.kind = "uint" ->
                IF jv.t = "num" /\ jv.n >= 0 THEN [err |-> FALSE, val |-> jv.n]
                ELSE [err |-> TRUE, val |-> val]
           [] t.kind = "string" ->
                IF jv.t = "str" THEN [err |-> FALSE, val |-> jv.s]
                ELSE [err |-> TRUE, val |-> val]
           [] t.kind = "bool" ->
                IF jv.t = "bool" THEN [err |-> FALSE, val |-> jv.b]
                ELSE [err |-> TRUE, val |-> val]
           [] t.kind = "slice" ->
                IF jv.t = "arr" THEN [err |-> FALSE, val |-> jv.s]
                ELSE [err |-> TRUE, val |-> val]
           [] t.kind = "struct" ->
                IF jv.t = "obj"
                THEN DecodeFields(val, StructDefs[t.name], 1, jv.o, FALSE)
                ELSE [err |-> TRUE, val |-> val]
           [] t.kind = "ptr" ->
                With(DecodeValue(IF val.nil THEN Zero(Elem(t)) ELSE val.v, Elem(t), jv),
                     LAMBDA r : [err |-> r.err, val |-> PtrTo(r.val)])
           [] OTHER -> [err |-> TRUE, val |-> val]

DecodeFields(val, fields, i, obj, err) ==
    IF i > Len(fields) THEN [err |-> err, val |-> val]
    ELSE LET f == fields[i]
         IN IF ~Has(obj, JsonKey(f)) THEN DecodeFields(val, fields, i + 1, obj, err)
            ELSE With(DecodeValue(val[f.Name], f.Type, obj[JsonKey(f)]), LAMBDA r :
                   With([val EXCEPT ![f.Name] = r.val], LAMBDA next :
                      DecodeFields(next, fields, i + 1, obj, err \/ r.err)))

\* the bytes of a JSON body or part: no value at all, text that is not
\* JSON, or one JSON object, possibly followed by further text; readErr is
\* a failure of the underlying reader
Doc(form, obj, trailing) ==
    [form |-> form, obj |-> obj, trailing |-> trailing, readErr |-> FALSE]
EmptyDoc == Doc("empty", <<>>, FALSE)
Garbage == Doc("garbage", <<>>, FALSE)

\* a decoder that stores what it decodes in a new zero value, not in val
DecodeFresh(doc, val, t) ==
    IF doc.readErr THEN [err |-> "read", val |-> val]
    ELSE IF doc.form = "empty" THEN [err |-> "EOF", val |-> val]
    ELSE IF doc.form = "garbage" THEN [err |-> "syntax", val |-> val]
    ELSE With(DecodeValue(Zero(t), t, JObj(doc.obj)),
              LAMBDA r : [err |-> IF r.err THEN "type" ELSE "", val |-> r.val])

\* json.NewDecoder(r).Decode(req): the first JSON value of the stream is
\* decoded and what follows it is not read; io.EOF when there is no value
Decode(doc, val, t) ==
    IF doc.readErr THEN [err |-> "read", val |-> val]
    ELSE IF doc.form = "empty" THEN [err |-> "EOF", val |-> val]
    ELSE IF doc.form = "garbage" THEN [err |-> "syntax", val |-> val]
    ELSE With(DecodeValue(val, t, JObj(doc.obj)),
              LAMBDA r : [err |-> IF r.err THEN "type" ELSE "", val |-> r.val])

\* the outcome of a walk together with the number of predicates it ran
Counted(e, n) == [fail |-> e.fail, rule |-> e.rule, name |-> e.name, ran |-> n]

\* the validators of one path run in order on a value: the first failure
RECURSIVE runValidators(_, _, _)
runValidators(fns, k, val) ==
    IF k > Len(fns) THEN Counted(NoErr, k - 1)
    ELSE With(Validate(fns[k], val),
              LAMBDA e : IF e.fail THEN Counted(e, k) ELSE runValidators(fns, k + 1, val))

RECURSIVE validateData(_, _, _, _), validateFields(_, _, _, _, _)

\* a walk that goes on beneath a nil pointer, at the zero value of what it
\* would point to
RECURSIVE validateDataBeneathNil(_, _, _, _)
validateDataBeneathNil(m, data, t, curPath) ==
    CASE t.kind = "ptr" ->
            validateDataBeneathNil(m, IF data.nil THEN Zero(Elem(t)) ELSE data.v,
                                   Elem(t), curPath)
      [] t.kind = "struct" -> validateFields(m, data, StructDefs[t.name], 1, curPath)
      [] OTHER -> Counted(NoErr, 0)

\* MethodDesc.validateData: the walk of the request value, fields in
\* declaration order, that runs the compiled validators of each path
validateData(m, data, t, curPath) ==
    CASE t.kind = "ptr" ->
            IF ~data.nil THEN validateData(m, data.v, Elem(t), curPath)
            ELSE Counted(NoErr, 0)
      [] t.kind = "struct" -> validateFields(m, data, StructDefs[t.name], 1, curPath)
      [] OTHER -> Counted(NoErr, 0)

validateFields(m, data, fields, i, curPath) ==
    IF i > Len(fields) THEN Counted(NoErr, 0)
    ELSE LET f == fields[i]
             ft == IF f.Type.kind = "ptr" THEN Elem(f.Type) ELSE f.Type
             path == Append(curPath, f.Name)
         IN With(IF ft.kind = "struct"
                 THEN validateData(m, data[f.Name], f.Type, path)
                 ELSE IF Has(m.Validators, path)
                 THEN runValidators(m.Validators[path], 1, data[f.Name])
                 ELSE Counted(NoErr, 0),
                 LAMBDA e : IF e.fail THEN e
                            ELSE With(validateFields(m, data, fields, i + 1, curPath),
                                      LAMBDA r : Counted(r, e.ran + r.ran)))

\* checkFileField: the name of the File field whose json tag is the part's
\* form name
checkFileField(partName, structName) ==
    LET hits == {i \in DOMAIN StructDefs[structName] :
                    /\ StructDefs[structName][i].json = partName
                    /\ StructDefs[structName][i].Type.kind = "file"}
    IN IF hits = {} THEN [ok |-> FALSE, name |-> ""]
       ELSE [ok |-> TRUE,
             name |-> StructDefs[structName][CHOOSE i \in hits : \A j \in hits : i <= j].Name]

(***************************************************************************)
(* The request pipeline: Rpc.ServeHTTP and MethodDesc.Call, one record per *)
(* request being served.                                                   *)
(***************************************************************************)
Msg(rule, name) == [rule |-> rule, name |-> name]
NoMsg == Msg("", "")
NoOut == [i |-> 0, s |-> <<>>, n |-> 0]

NoRet == [kind |-> "none", code |-> "", msg |-> NoMsg, data |-> "", text |-> "", out |-> NoOut]
\* &Error{Code, Message, Data}
RpcError(code, msg, data) == [NoRet EXCEPT !.kind = "rpcError", !.code = code,
                                           !.msg = msg, !.data = data]
\* an error that is not an *Error, with the text its Error() gives
PlainError(text) == [NoRet EXCEPT !.kind = "error", !.text = text]
Response(out) == [NoRet EXCEPT !.kind = "resp", !.out = out]
Panic == [NoRet EXCEPT !.kind = "panic"]

NoResponse == [status |-> 0, kind |-> "none", code |-> "", msg |-> NoMsg, data |-> "",
               text |-> "", out |-> NoOut]

NoRequestYet == [Method |-> "", Path |-> <<>>, boundary |-> "", doc |-> EmptyDoc,
                 parts |-> <<>>, closed |-> FALSE]

IdleCall ==
    [pc |-> "idle", req |-> NoRequestYet, path |-> <<>>, val |-> <<>>, next |-> 1,
     files |-> <<>>, handlerCalls |-> 0, ran |-> 0, stage |-> "", ret |-> NoRet,
     resp |-> NoResponse]

\* the goroutines that serve requests; the first alone serves the requests
\* that come one at a time
Callers == {"c1", "c2"}
Serial == {"c1"}

\* Rpc.GetMethod: the key looked up for a URL path
GetMethodKey(path) == TrimSuffix(path, <<"/">>)

\* the struct type behind a descriptor's request type
ReqType(md) == Elem(md.Request)

\* a constructor that leaves the payloads out of the error
ErrorFuncNoData(svc, digits, field, msg, data) ==
    IF Has(errVars, <<svc, digits, field>>)
    THEN RpcError(errVars[<<svc, digits, field>>], msg, "")
    ELSE Panic

\* the constructor bound to a field of a service's ErrorsV<N> structure,
\* called with a message and any number of payloads (calling a field that
\* was never bound is a nil call: a panic); "" is the Data left unset
ErrorFunc(svc, digits, field, msg, data) ==
    IF Has(errVars, <<svc, digits, field>>)
    THEN RpcError(errVars[<<svc, digits, field>>], msg,
                  IF Len(data) > 0 THEN data[1] ELSE "")
    ELSE Panic

\* what a handler can return for a request value: V1, V2 and V3 of package
\* hello as written; for the other service every kind of result a handler
\* may produce
HandlerResults(md, val) ==
    CASE md.Method = "hello" /\ md.Func = nV1 ->
            IF val.WithErr
            THEN {ErrorFunc("hello", <<"1">>, "Error1", Msg("text", "test"), <<>>)}
            ELSE {Response([i |-> val.IntParam, s |-> val.StrParam, n |-> 0])}
      [] md.Method = "hello" /\ md.Func = nV2 ->
            {Response([i |-> val.IntParam, s |-> <<>>, n |-> 0])}
      [] md.Method = "hello" /\ md.Func = nV3 ->
            IF val.Content.nil THEN {Panic}
            ELSE {Response([i |-> val.IntParam, s |-> <<>>, n |-> Len(val.Content.data)]),
                  PlainError("read failed")}
      [] OTHER ->
            {Response(NoOut), PlainError("boom"),
             ErrorFunc(md.Method, <<"1">>, "NotFound", Msg("text", "no such place"), <<"payload">>),
             RpcError("CUSTOM", NoMsg, "")}

\* the body http.Error writes for an error that is not an *Error, were it
\* given the error's own text
InternalErrorBodyVerbatim(ret) == ret.text

\* the body http.Error writes for an error that is not an *Error:
\* http.StatusText(http.StatusInternalServerError)
InternalErrorBody(ret) == "Internal Server Error"

\* the response ServeHTTP writes for what Call returned
ResponseFor(ret) ==
    CASE ret.kind = "rpcError" ->
            [NoResponse EXCEPT !.status = 400, !.kind = "error", !.code = ret.code,
                               !.msg = ret.msg, !.data = ret.data]
      [] ret.kind = "error" ->
            [NoResponse EXCEPT !.status = 500, !.kind = "text",
                               !.text = InternalErrorBody(ret)]
      [] ret.kind = "resp" ->
            [NoResponse EXCEPT !.status = 200, !.kind = "json", !.out = ret.out]
      [] OTHER -> NoResponse

\* os.CreateTemp followed by os.Remove: the file is gone again
CreatedAndRemoved == [exists |-> FALSE, removes |-> 1]
\* os.CreateTemp: a new file in the temporary directory
Created == [exists |-> TRUE, removes |-> 0]

\* a request value that the calls in progress on a descriptor have in common
SharedRequest(md, c) ==
    LET others == {d \in Callers \ {c} :
                      calls[d].path = md.Path /\ calls[d].pc \notin {"idle", "done"}}
    IN IF others = {} THEN Zero(ReqType(md))
       ELSE calls[CHOOSE d \in others : TRUE].val

\* reflect.New(m.Request.Elem()): the request value of the call of c, a zero
\* value of its own
NewRequest(md, c) == Zero(ReqType(md))

\* Rpc.ServeHTTP up to the call of MethodDesc.Call: 405 for another method
\* than POST, 404 for an unknown path, else a fresh request value
ServeHTTP(c, request) ==
    /\ calls[c].pc = "idle"
    /\ LET key == GetMethodKey(request.Path)
       IN calls' = [calls EXCEPT ![c] =
            IF request.Method # "POST"
            THEN [@ EXCEPT !.pc = "done", !.req = request,
                           !.resp = [NoResponse EXCEPT !.status = 405, !.kind = "text",
                                                       !.text = "Method Not Allowed"]]
            ELSE IF ~Has(methods, key)
            THEN [@ EXCEPT !.pc = "done", !.req = request,
                           !.resp = [NoResponse EXCEPT !.status = 404, !.kind = "text",
                                                       !.text = "404 page not found"]]
            ELSE [@ EXCEPT !.pc = IF request.boundary # "" THEN "parts" ELSE "decode",
                           !.req = request, !.path = key,
                           !.val = NewRequest(methods[key], c)]]
    /\ UNCHANGED <<regVars, maxMemory, tmpFiles, gzipVars, docVars>>

\* Call without a boundary: the body is decoded as one JSON document
CallDecode(c, io) ==
    /\ calls[c].pc = "decode"
    /\ LET call == calls[c]
           md == methods[call.path]
           d == Decode([call.req.doc EXCEPT !.readErr = (io = "read")], call.val, ReqType(md))
       IN calls' = [calls EXCEPT ![c] =
            IF d.err # ""
            THEN [@ EXCEPT !.pc = "returned", !.stage = "decode",
                           !.ret = RpcError("INVALID_JSON", Msg("json", d.err), "")]
            ELSE [@ EXCEPT !.pc = "validate", !.val = d.val]]
    /\ UNCHANGED <<regVars, maxMemory, tmpFiles, gzipVars, docVars>>

Min(a, b) == IF a < b THEN a ELSE b

\* the bytes transmitted in a part, told apart by their place
PartBytes(part) == [i \in 1..part.size |-> i]

\* io.CopyN(buf, p, n): what buf holds afterwards
CopyN(bytes, n) == SubSeq(bytes, 1, Min(Len(bytes), n))

\* io.Copy(tmp, p) of a part from which buf was read already: the bytes of
\* the part that follow those of buf
RestOfPart(buf, bytes) == SubSeq(bytes, Len(buf) + 1, Len(bytes))

\* io.Copy(tmp, io.MultiReader(buf, p)): what the temporary file holds
\* afterwards, the bytes of buf and then the bytes left in the part
MultiReader(buf, bytes) == buf \o SubSeq(bytes, Len(buf) + 1, Len(bytes))

\* the File set in the request: the buffer, or the rewound temporary file
FileOf(backing, id, data) ==
    [nil |-> FALSE, backing |-> backing, id |-> id, size |-> Len(data), data |-> data]

\* Call with a boundary, one turn of the loop: reader.NextPart and the
\* handling of the part.  io is where the turn's I/O fails, if it does:
\* "next" in NextPart, "read" reading the part, "create", "copy" and "seek"
\* creating, filling and rewinding the temporary file.
CallNextPart(c, io) ==
    /\ calls[c].pc = "parts"
    /\ LET call == calls[c]
           md == methods[call.path]
           k == call.next
           atEnd == k > Len(call.req.parts)
           part == call.req.parts[k]
           ff == checkFileField(part.name, ReqType(md).name)
           buf == CopyN(PartBytes(part), maxMemory + 1)
           n == Len(buf)
           newId == Len(tmpFiles) + 1
           fail(text) == [call EXCEPT !.pc = "returned", !.stage = "decode",
                                     !.ret = PlainError(text)]
       IN IF atEnd \/ io = "next"
          THEN /\ io \in {"ok", "next"}
               /\ calls' = [calls EXCEPT ![c] =
                    IF io = "ok" /\ call.req.closed
                    THEN [call EXCEPT !.pc = "validate"]
                    ELSE fail("multipart: NextPart")]
               /\ UNCHANGED tmpFiles
          ELSE IF ff.ok
          THEN IF io = "read"
               THEN calls' = [calls EXCEPT ![c] = fail("read")] /\ UNCHANGED tmpFiles
               ELSE IF n > maxMemory
               THEN /\ io \in {"ok", "create", "copy", "seek"}
                    /\ tmpFiles' = CASE io = "ok" -> Append(tmpFiles, Created)
                                     [] io = "create" -> tmpFiles
                                     [] OTHER -> Append(tmpFiles, CreatedAndRemoved)
                    /\ calls' = [calls EXCEPT ![c] =
                         IF io # "ok" THEN fail(io)
                         ELSE LET file == FileOf("tmp", newId,
                                                 MultiReader(buf, PartBytes(part)))
                              IN [call EXCEPT !.val[ff.name] = file, !.next = k + 1,
                                              !.files = Append(@, [file |-> file, closed |-> FALSE])]]
               ELSE /\ io = "ok"
                    /\ UNCHANGED tmpFiles
                    /\ calls' = [calls EXCEPT ![c] =
                         LET file == FileOf("buffer", 0, buf)
                         IN [call EXCEPT !.val[ff.name] = file, !.next = k + 1,
                                         !.files = Append(@, [file |-> file, closed |-> FALSE])]]
          ELSE /\ io \in {"ok", "read"}
               /\ UNCHANGED tmpFiles
               /\ LET d == Decode([part.doc EXCEPT !.readErr = (io = "read")],
                                  call.val, ReqType(md))
                  IN calls' = [calls EXCEPT ![c] =
                       IF d.err \notin {"", "EOF"}
                       THEN [call EXCEPT !.pc = "returned", !.stage = "decode",
                                         !.ret = RpcError("INVALID_JSON", Msg("json", d.err), "")]
                       ELSE [call EXCEPT !.val = d.val, !.next = k + 1]]
    /\ UNCHANGED <<regVars, maxMemory, gzipVars, docVars>>

\* Call after decoding: validateData, when the descriptor has validators
CallValidate(c) ==
    /\ calls[c].pc = "validate"
    /\ LET call == calls[c]
           md == methods[call.path]
           e == IF md.Validators # EmptyMap
                THEN validateData(md, PtrTo(call.val), md.Request, <<>>)
                ELSE Counted(NoErr, 0)
       IN calls' = [calls EXCEPT ![c] =
            IF e.fail
            THEN [@ EXCEPT !.pc = "returned", !.stage = "validate", !.ran = e.ran,
                           !.ret = RpcError("INVALID_JSON", Msg(e.rule, e.name), "")]
            ELSE [@ EXCEPT !.pc = "dispatch", !.ran = e.ran]]
    /\ UNCHANGED <<regVars, maxMemory, tmpFiles, gzipVars, docVars>>

\* Call after validation: m.Func.Call and the result handed back
CallDispatch(c) ==
    /\ calls[c].pc = "dispatch"
    /\ \E res \in HandlerResults(methods[calls[c].path], calls[c].val) :
          calls' = [calls EXCEPT ![c] =
                       [@ EXCEPT !.pc = "returned", !.stage = "handler", !.ret = res,
                                 !.handlerCalls = @ + 1]]
    /\ UNCHANGED <<regVars, maxMemory, tmpFiles, gzipVars, docVars>>

\* Rpc.ServeHTTP after Call has returned: 400 and the encoded *Error, 500
\* and a fixed text for another error, else the encoded response
Respond(c) ==
    /\ calls[c].pc = "returned"
    /\ calls' = [calls EXCEPT ![c] = [@ EXCEPT !.pc = "done", !.resp = ResponseFor(calls[c].ret)]]
    /\ UNCHANGED <<regVars, maxMemory, tmpFiles, gzipVars, docVars>>


(***************************************************************************)
(* Specifications                                                          *)
(***************************************************************************)
\* the header values given to CanGzip: up to MaxPieces pieces put together
MaxPieces == 4
HeaderPieces == {gzipWord, <<",">>, <<"t">>, <<" ">>, <<"g","z">>}
HeaderSeqs == UNION {[1..n -> HeaderPieces] : n \in 0..MaxPieces}
Headers == {Flatten(ps) : ps \in HeaderSeqs}

\* no document generated yet
NoDocs ==
    [prefix |-> <<>>,      \* the prefix given to typescript.New
     swagger |-> <<>>,     \* what the calls of GetSwagger returned
     ts |-> <<>>,          \* what the calls of the typescript handler wrote
     root |-> T(""),       \* the type given to getSchema and addTsStructTypes
     schema |-> <<>>,      \* what getSchema returned for it
     types |-> <<>>]       \* what addTsStructTypes returned for it

NotApplied == [applied |-> FALSE, res |-> FALSE, fastApplied |-> FALSE, fast |-> FALSE]

\* the registry before any registration, with nothing being served
InitIdle ==
    /\ calls = [c \in Callers |-> IdleCall]
    /\ maxMemory = 0
    /\ tmpFiles = <<>>
    /\ ce = <<>>
    /\ gzipRes = NotApplied
    /\ docs = NoDocs

\* rpc.New(trimPrefix)
InitReg ==
    /\ trimPrefix \in TrimPrefixes
    /\ methods = EmptyMap
    /\ errVars = EmptyMap
    /\ lastReg = NoReg
    /\ InitIdle

\* Rpc.RegisterMethod(method); a panic ends the program
RegisterMethod(method) ==
    /\ lastReg.result # "panic"
    /\ LET r == RegisterMethodOn(method, trimPrefix, methods, errVars)
       IN /\ methods' = r.methods
          /\ errVars' = r.errVars
          /\ lastReg' = r.reg
    /\ UNCHANGED <<trimPrefix, callVars, gzipVars, docVars>>

NextReg == \E method \in Services : RegisterMethod(method)

SpecReg == InitReg /\ [][NextReg]_vars

InitGzip ==
    /\ trimPrefix = pkgRoot
    /\ methods = EmptyMap
    /\ errVars = EmptyMap
    /\ lastReg = NoReg
    /\ calls = [c \in Callers |-> IdleCall]
    /\ maxMemory = 0
    /\ tmpFiles = <<>>
    /\ ce \in Headers
    /\ gzipRes = NotApplied
    /\ docs = NoDocs

\* CanGzip(ce)
ApplyCanGzip ==
    /\ ~gzipRes.applied
    /\ gzipRes' = [gzipRes EXCEPT !.applied = TRUE, !.res = CanGzip(ce)]
    /\ UNCHANGED <<regVars, callVars, ce, docVars>>

\* CanGzipFast(ce)
ApplyCanGzipFast ==
    /\ ~gzipRes.fastApplied
    /\ gzipRes' = [gzipRes EXCEPT !.fastApplied = TRUE, !.fast = CanGzipFast(ce)]
    /\ UNCHANGED <<regVars, callVars, ce, docVars>>

NextGzip == ApplyCanGzip \/ ApplyCanGzipFast

SpecGzip == InitGzip /\ [][NextGzip]_vars

\* the registry is filled while it holds fewer than MaxDocMethods methods
MaxDocMethods == 2
\* the client is generated at most MaxGenerations times
MaxGenerations == 2

\* rpc.New(trimPrefix), and the prefix later given to typescript.New
InitDoc ==
    /\ trimPrefix \in {pkgRoot, pkgRoot \o <<"/">>}
    /\ methods = EmptyMap
    /\ errVars = EmptyMap
    /\ lastReg = NoReg
    /\ calls = [c \in Callers |-> IdleCall]
    /\ maxMemory = 0
    /\ tmpFiles = <<>>
    /\ ce = <<>>
    /\ gzipRes = NotApplied
    /\ \E prefix \in {pkgRoot, pkgRoot \o <<"/">>} : docs = [NoDocs EXCEPT !.prefix = prefix]

\* Rpc.RegisterMethod(method), before any document is generated
DocRegister(method) ==
    /\ docs.swagger = <<>> /\ docs.ts = <<>>
    /\ Cardinality(DOMAIN methods) < MaxDocMethods
    /\ RegisterMethod(method)

\* Rpc.GetSwagger, the range over r.methods running in some order
GenSwagger ==
    /\ lastReg.result # "panic"
    /\ docs.swagger = <<>>
    /\ \E doc \in {GetSwagger(methods, order) : order \in MapOrders(DOMAIN methods)} :
          docs' = [docs EXCEPT !.swagger = Append(@, doc)]
    /\ UNCHANGED <<regVars, callVars, gzipVars>>

\* the handler of typescript.New(rpc, prefix)
GenTs ==
    /\ lastReg.result # "panic"
    /\ Len(docs.ts) < MaxGenerations
    /\ \E out \in TsNew(methods, docs.prefix) : docs' = [docs EXCEPT !.ts = Append(@, out)]
    /\ UNCHANGED <<regVars, callVars, gzipVars>>

NextDoc ==
    \/ \E method \in DocServices : DocRegister(method)
    \/ GenSwagger
    \/ GenTs

SpecDoc == InitDoc /\ [][NextDoc]_vars

\* the types given to getSchema and addTsStructTypes: each struct type, a
\* pointer to it and a slice of it
RootTypes ==
    UNION {{TStruct(n), TPtr("struct", n), TSliceOf(n)} : n \in DOMAIN StructDefs}

InitTypes ==
    /\ trimPrefix \in {pkgRoot, pkgRoot \o <<"/">>}
    /\ methods = EmptyMap
    /\ errVars = EmptyMap
    /\ lastReg = NoReg
    /\ calls = [c \in Callers |-> IdleCall]
    /\ maxMemory = 0
    /\ tmpFiles = <<>>
    /\ ce = <<>>
    /\ gzipRes = NotApplied
    /\ \E prefix \in {pkgRoot, pkgRoot \o <<"/">>}, t \in RootTypes :
          docs = [NoDocs EXCEPT !.prefix = prefix, !.root = t]

\* getSchema(t, storage) on an empty storage
ApplyGetSchema ==
    /\ docs.schema = <<>>
    /\ docs' = [docs EXCEPT !.schema = <<getSchema(docs.root, EmptyMap, {})>>]
    /\ UNCHANGED <<regVars, callVars, gzipVars>>

\* addTsStructTypes(st, prefix, m) on an empty table
ApplyAddTsStructTypes ==
    /\ docs.types = <<>>
    /\ docs' = [docs EXCEPT
                  !.types = <<addTsStructTypes(docs.root, docs.prefix, EmptyMap, {})>>]
    /\ UNCHANGED <<regVars, callVars, gzipVars>>

NextTypes == ApplyGetSchema \/ ApplyAddTsStructTypes

SpecTypes == InitTypes /\ [][NextTypes]_vars

(***************************************************************************)
(* The requests served: JSON bodies for /hello/v1 and /Geo/v1 built from a  *)
(* few values per field, and multipart bodies of up to MaxParts parts.     *)
(***************************************************************************)
Absent == [t |-> "absent", n |-> 0, s |-> <<>>, b |-> FALSE, o |-> <<>>]

\* the JSON object with the given members, less the absent ones
ObjOf(members) == [k \in {x \in DOMAIN members : members[x].t # "absent"} |-> members[k]]

helloV1 == <<"/","h","e","l","l","o","/","v","1">>
helloV2 == <<"/","h","e","l","l","o","/","v","2">>
helloV3 == <<"/","h","e","l","l","o","/","v","3">>
geoV1 == <<"/","G","e","o","/","v","1">>
geoV1Lower == <<"/","g","e","o","/","v","1">>

IntParams == {Absent, JNum(99), JNum(100), JNum(150), JNum(200), JNum(201), JStr(<<"x">>)}
StrParams == {Absent, JStr(<<"a">>), JStr(<<"a","b">>), JStr(<<"\n","\n">>),
              JStr(<<"a","\n","b">>)}
F1Objs == {JObj(ObjOf([f1 |-> JNum(0)])), JObj(ObjOf([f1 |-> JNum(1)])),
           JObj(ObjOf([f1 |-> JNum(200)])), JObj(ObjOf([f1 |-> JNum(201)]))}
StructParams == {Absent} \cup F1Objs
StructPtrParams == {Absent, JObj(ObjOf([f1 |-> JNum(0)])), JObj(ObjOf([f1 |-> JNum(1)]))}
WithErrs == {Absent, JBool(TRUE)}

V1Objs == {ObjOf([int_param |-> a, str_param |-> b, struct_param |-> c,
                  struct_ptr_param |-> d, with_err |-> e]) :
              a \in IntParams, b \in StrParams, c \in StructParams,
              d \in StructPtrParams, e \in WithErrs}

GeoObjs == {ObjOf([lat |-> a, zoom |-> b]) :
               a \in {Absent, JNum(-2), JNum(-1), JNum(1), JNum(2)},
               b \in {Absent, JNum(-1), JNum(0), JNum(2), JNum(3)}}

JsonRequest(path, doc) ==
    [Method |-> "POST", Path |-> path, boundary |-> "", doc |-> doc,
     parts |-> <<>>, closed |-> FALSE]

okV1 == ObjOf([int_param |-> JNum(150), str_param |-> JStr(<<"a","b">>),
               struct_param |-> JObj(ObjOf([f1 |-> JNum(1)]))])

JsonRequests ==
    {JsonRequest(helloV1, Doc("value", o, FALSE)) : o \in V1Objs}
    \cup {JsonRequest(geoV1, Doc("value", o, FALSE)) : o \in GeoObjs}
    \cup {JsonRequest(p, d) :
             p \in {helloV1, helloV1 \o <<"/">>, helloV2, helloV3, geoV1Lower},
             d \in {EmptyDoc, Garbage, Doc("value", okV1, FALSE), Doc("value", okV1, TRUE)}}
    \cup {[JsonRequest(helloV1, Doc("value", okV1, FALSE)) EXCEPT !.Method = "GET"]}

MaxParts == 2

FilePart(name, size) == [name |-> name, doc |-> EmptyDoc, size |-> size]
JsonPart(doc) == [name |-> "json_data", doc |-> doc, size |-> 0]

Parts == {FilePart("content", 0), FilePart("content", 2), FilePart("content", 3),
          JsonPart(Doc("value", ObjOf([int_param |-> JNum(7)]), FALSE)),
          JsonPart(Doc("value", ObjOf([int_param |-> JStr(<<"x">>)]), FALSE)),
          JsonPart(Garbage), JsonPart(EmptyDoc)}

PartSeqs == UNION {[1..n -> Parts] : n \in 0..MaxParts}

\* the JSON parts sent to /hello/v1: a whole valid request, and parts that
\* set some of its fields, top-level and nested, or none
V1Parts ==
    {JsonPart(Doc("value", okV1, FALSE)),
     JsonPart(Doc("value", ObjOf([int_param |-> JNum(120), arr_param |-> JArr(<<"a">>)]), FALSE)),
     JsonPart(Doc("value", ObjOf([str_param |-> JStr(<<"c","d">>),
                                  arr_param |-> JArr(<<"b","c">>)]), FALSE)),
     JsonPart(Doc("value", ObjOf([struct_param |-> JObj(ObjOf([f1 |-> JNum(5)])),
                                  struct_ptr_param |-> JObj(ObjOf([f1 |-> JNum(2)]))]), FALSE)),
     JsonPart(Doc("value", ObjOf([struct_param |-> JObj(<<>>),
                                  struct_ptr_param |-> JObj(<<>>)]), FALSE)),
     JsonPart(EmptyDoc)}

V1PartSeqs == UNION {[1..n -> V1Parts] : n \in 0..MaxParts}

MultipartRequests ==
    {[Method |-> "POST", Path |-> helloV3, boundary |-> "b", doc |-> EmptyDoc,
      parts |-> ps, closed |-> cl] : ps \in PartSeqs, cl \in BOOLEAN}
    \cup {[Method |-> "POST", Path |-> helloV1, boundary |-> "b", doc |-> EmptyDoc,
           parts |-> ps, closed |-> TRUE] : ps \in V1PartSeqs}

Requests == JsonRequests \cup MultipartRequests

IOs == {"ok", "next", "read", "create", "copy", "seek"}

\* the test's registry: rpc.New(prefix) and RegisterMethods of the two
\* well-formed services, then requests arrive
Init ==
    /\ trimPrefix = pkgRoot
    /\ LET r == RegisterMethodsOn(<<Hello, Geo>>, pkgRoot, EmptyMap, EmptyMap)
       IN methods = r.methods /\ errVars = r.errVars
    /\ lastReg = RegResult("geo", "ok", "", <<>>)
    /\ calls = [c \in Callers |-> IdleCall]
    /\ maxMemory \in {0, 2}
    /\ tmpFiles = <<>>
    /\ ce = <<>>
    /\ gzipRes = NotApplied
    /\ docs = NoDocs

\* a request arrives for an idle caller
Arrive(c) == calls[c].pc = "idle" /\ \E request \in Requests : ServeHTTP(c, request)

Next ==
    \E c \in Serial :
        \/ Arrive(c)
        \/ \E io \in {"ok", "read"} : CallDecode(c, io)
        \/ \E io \in IOs : CallNextPart(c, io)
        \/ CallValidate(c)
        \/ CallDispatch(c)
        \/ Respond(c)

Spec == Init /\ [][Next]_vars

\* the requests that arrive at the same time
ConcRequests ==
    {JsonRequest(helloV1, Doc("value", okV1, FALSE)),
     JsonRequest(helloV1, Doc("value", ObjOf([with_err |-> JBool(TRUE)]), FALSE)),
     JsonRequest(helloV1, Doc("value", ObjOf([int_param |-> JNum(100),
                                              str_param |-> JStr(<<"a","b">>),
                                              struct_param |-> JObj(ObjOf([f1 |-> JNum(1)])),
                                              with_err |-> JBool(TRUE)]), FALSE)),
     JsonRequest(helloV1, Garbage),
     JsonRequest(helloV2, Doc("value", ObjOf([int_param |-> JNum(99)]), FALSE)),
     JsonRequest(helloV2, Doc("value", ObjOf(<<>>), FALSE)),
     JsonRequest(geoV1, Doc("value", ObjOf([lat |-> JNum(1)]), FALSE)),
     [Method |-> "POST", Path |-> helloV3, boundary |-> "b", doc |-> EmptyDoc,
      parts |-> <<JsonPart(Doc("value", ObjOf([int_param |-> JNum(7)]), FALSE)),
                  FilePart("content", 3)>>, closed |-> TRUE],
     [Method |-> "POST", Path |-> helloV3, boundary |-> "b", doc |-> EmptyDoc,
      parts |-> <<FilePart("content", 2)>>, closed |-> TRUE]}

\* the registry of Init
TestRegistry == RegisterMethodsOn(<<Hello, Geo>>, pkgRoot, EmptyMap, EmptyMap)

InitConc ==
    /\ trimPrefix = pkgRoot
    /\ methods = TestRegistry.methods
    /\ errVars = TestRegistry.errVars
    /\ lastReg = RegResult("geo", "ok", "", <<>>)
    /\ calls = [c \in Callers |-> IdleCall]
    /\ maxMemory \in {0, 2}
    /\ tmpFiles = <<>>
    /\ ce = <<>>
    /\ gzipRes = NotApplied
    /\ docs = NoDocs

\* a request arrives for an idle goroutine while others may be in a Call
ArriveConc(c) ==
    calls[c].pc = "idle" /\ \E request \in ConcRequests : ServeHTTP(c, request)

\* the steps of the goroutines interleave; no I/O fails
NextConc ==
    \E c \in Callers :
        \/ ArriveConc(c)
        \/ CallDecode(c, "ok")
        \/ CallNextPart(c, "ok")
        \/ CallValidate(c)
        \/ CallDispatch(c)
        \/ Respond(c)

SpecConc == InitConc /\ [][NextConc]_vars


(***************************************************************************)
(* Properties                                                              *)
(***************************************************************************)
\* Call has returned for caller c on a registered path
Returned(c) == calls[c].pc \in {"returned", "done"} /\ calls[c].path # <<>>
\* the response to caller c on a registered path has been written
Answered(c) == calls[c].pc = "done" /\ calls[c].path # <<>>
\* the body of caller c was decoded without error
Decoded(c) == Returned(c) /\ calls[c].stage \in {"validate", "handler"}
\* what Call returned is the structured error INVALID_JSON
InvalidJson(ret) == ret.kind = "rpcError" /\ ret.code = "INVALID_JSON"
\* the response is 400 with a structured error INVALID_JSON
Status400InvalidJson(resp) ==
    resp.status = 400 /\ resp.kind = "error" /\ resp.code = "INVALID_JSON"
\* the request value passes every compiled validator but those of field f
OthersPass(md, val, f) ==
    LET rest == [k \in DOMAIN md.Validators \ {<<f.Name>>} |-> md.Validators[k]]
    IN ~validateData([md EXCEPT !.Validators = rest], PtrTo(val), md.Request, <<>>).fail
SvcById(id) == CHOOSE s \in Services : s.id = id

\* C1: the handler is invoked at most once per Call and only on a request
\* that decoded and passes every compiled validator; a Call that ends in
\* decoding or in validation returns the structured error INVALID_JSON
\* without having invoked the handler.
C1_HandlerOnlyOnValidRequest ==
    \A c \in Callers :
        Returned(c) =>
            LET call == calls[c]
                md == methods[call.path]
            IN /\ call.handlerCalls <= 1
               /\ call.handlerCalls = 1 =>
                    /\ call.stage = "handler"
                    /\ ~validateData(md, PtrTo(call.val), md.Request, <<>>).fail
               /\ call.stage \in {"decode", "validate"} =>
                    call.handlerCalls = 0 /\ InvalidJson(call.ret)

\* C2: once the response is written, every file spooled to temporary
\* storage during the multipart decode has been closed and its temporary
\* file has been deleted, exactly once.
C2_SpooledFilesReleasedOnce ==
    \A c \in Callers :
        calls[c].pc = "done" =>
            /\ \A i \in DOMAIN calls[c].files :
                  calls[c].files[i].file.backing = "tmp" => calls[c].files[i].closed
            /\ \A i \in DOMAIN tmpFiles :
                  ~tmpFiles[i].exists /\ tmpFiles[i].removes = 1

\* the signed-integer fields of a request struct that declare both bounds
SignedRangeFields(structName) ==
    {f \in Range(StructDefs[structName]) :
        f.Type.kind = "int" /\ f.minimum.set /\ f.minimum.num
                            /\ f.maximum.set /\ f.maximum.num}

\* C3: for a signed-integer field with minimum m and maximum M, a decoded
\* request with value v whose other fields are valid reaches the handler
\* iff m <= v <= M, and for v < m or v > M Call returns INVALID_JSON and
\* the handler is not invoked.
C3_SignedRangeInclusive ==
    \A c \in Callers :
        Decoded(c) =>
            LET call == calls[c]
                md == methods[call.path]
            IN \A f \in SignedRangeFields(ReqType(md).name) :
                  LET v == call.val[f.Name]
                      inRange == f.minimum.val <= v /\ v <= f.maximum.val
                  IN /\ OthersPass(md, call.val, f) =>
                          (call.handlerCalls = 1 <=> inRange)
                     /\ ~inRange => InvalidJson(call.ret) /\ call.handlerCalls = 0

\* a request with int_param at its maximum, 200, reached the handler
C3_Witness ==
    \E c \in Callers :
        /\ Answered(c) /\ calls[c].path = helloV1
        /\ calls[c].val.IntParam = 200
        /\ calls[c].handlerCalls = 1 /\ calls[c].resp.status = 200

\* some unsigned-integer field of the value declares a maximum and holds
\* more than it
RECURSIVE UintOverMax(_, _)
UintOverMax(data, t) ==
    CASE t.kind = "ptr" -> ~data.nil /\ UintOverMax(data.v, Elem(t))
      [] t.kind = "struct" ->
            \E f \in Range(StructDefs[t.name]) :
                IF f.Type.kind \in {"struct", "ptr"}
                THEN UintOverMax(data[f.Name], f.Type)
                ELSE /\ f.Type.kind = "uint" /\ f.maximum.set /\ f.maximum.num
                     /\ data[f.Name] > f.maximum.val
      [] OTHER -> FALSE

\* C4: a request that decodes and holds, in an unsigned-integer field that
\* declares a maximum M, a value greater than M is answered with status 400
\* and the structured error INVALID_JSON.
C4_UnsignedMaximumRejected ==
    \A c \in Callers :
        (Answered(c) /\ Decoded(c)
            /\ UintOverMax(PtrTo(calls[c].val), methods[calls[c].path].Request))
        => Status400InvalidJson(calls[c].resp)

\* the string fields of a request struct that declare the pattern .{2,}
TwoOrMoreFields(structName) ==
    {f \in Range(StructDefs[structName]) :
        f.Type.kind = "string" /\ f.pattern = TwoOrMore}

\* two characters next to each other, neither of them a newline
TwoAdjacent(v) == \E i \in 1..(Len(v) - 1) : v[i] # "\n" /\ v[i + 1] # "\n"

\* C5 as stated: for a string field with pattern .{2,}, a value of one
\* character yields INVALID_JSON, and a value of two or more characters
\* passes: the request reaches the handler when its other fields are valid.
C5_TwoOrMoreCharactersPass ==
    \A c \in Callers :
        Decoded(c) =>
            LET call == calls[c]
                md == methods[call.path]
            IN \A f \in TwoOrMoreFields(ReqType(md).name) :
                  LET v == call.val[f.Name]
                  IN /\ Len(v) = 1 => InvalidJson(call.ret) /\ call.handlerCalls = 0
                     /\ (Len(v) >= 2 /\ OthersPass(md, call.val, f)) =>
                            call.handlerCalls = 1

\* C5: for a string field with pattern .{2,}, a value of one character
\* yields INVALID_JSON; a request whose other fields are valid reaches the
\* handler iff the value holds two adjacent characters that are not
\* newlines, and without two such characters Call returns INVALID_JSON.
C5_TwoAdjacentNonNewlinePass ==
    \A c \in Callers :
        Decoded(c) =>
            LET call == calls[c]
                md == methods[call.path]
            IN \A f \in TwoOrMoreFields(ReqType(md).name) :
                  LET v == call.val[f.Name]
                  IN /\ Len(v) = 1 => InvalidJson(call.ret) /\ call.handlerCalls = 0
                     /\ OthersPass(md, call.val, f) =>
                            (call.handlerCalls = 1 <=> TwoAdjacent(v))
                     /\ ~TwoAdjacent(v) => InvalidJson(call.ret) /\ call.handlerCalls = 0

\* a three-character value with a newline in the middle was rejected by the
\* pattern
C5_Witness ==
    \E c \in Callers :
        /\ Answered(c) /\ calls[c].path = helloV1
        /\ calls[c].val.StrParam = <<"a", "\n", "b">>
        /\ calls[c].resp.status = 400
        /\ calls[c].resp.msg = Msg("vPattern", "str_param")

\* the body of a request to a method is malformed: without a boundary it is
\* not one JSON value; with a boundary its closing delimiter is missing or
\* a part that is not a file is not JSON
Malformed(req, md) ==
    IF req.boundary = ""
    THEN req.doc.form # "value" \/ req.doc.trailing
    ELSE \/ ~req.closed
         \/ \E i \in DOMAIN req.parts :
               /\ ~checkFileField(req.parts[i].name, ReqType(md).name).ok
               /\ req.parts[i].doc.form = "garbage"

\* C6: every POST to a registered path with a malformed body is answered
\* with status 400 and the structured error INVALID_JSON.
C6_MalformedBodyIs400 ==
    \A c \in Callers :
        (Answered(c) /\ Malformed(calls[c].req, methods[calls[c].path]))
        => Status400InvalidJson(calls[c].resp)

\* C7: a structured error returned by the handler is what Call returns and
\* is written with status 400 and the same code, message and data; any
\* other error returned by Call is answered with status 500 and the text
\* of that status, which is not the error's text.
C7_ErrorMapping ==
    \A c \in Callers :
        Answered(c) =>
            LET call == calls[c]
                md == methods[call.path]
            IN /\ (call.stage = "handler" /\ call.ret.kind = "rpcError") =>
                    /\ call.ret \in HandlerResults(md, call.val)
                    /\ call.resp.status = 400 /\ call.resp.kind = "error"
                    /\ call.resp.code = call.ret.code
                    /\ call.resp.msg = call.ret.msg
                    /\ call.resp.data = call.ret.data
               /\ call.ret.kind = "error" =>
                    /\ call.resp.status = 500 /\ call.resp.kind = "text"
                    /\ call.resp.text = "Internal Server Error"
                    /\ call.resp.text # call.ret.text
                    /\ call.resp.code = "" /\ call.resp.msg = NoMsg /\ call.resp.data = ""

\* a handler's plain error was answered with status 500
C7_Witness ==
    \E c \in Callers :
        /\ Answered(c) /\ calls[c].stage = "handler"
        /\ calls[c].ret = PlainError("boom")
        /\ calls[c].resp.status = 500

\* the package path of a service with the trim prefix removed
PkgRest(s) == TrimPrefix(s.PkgPath, TrimSuffix(trimPrefix, <<"/">>))

IsPtrToStruct(t) == t.kind = "ptr" /\ t.elem = "struct"

\* the signature (context, *RequestStruct) -> (*ResponseStruct, error)
FullSignature(g) ==
    /\ g.NumIn = 3 /\ g.In1 = "context.Context" /\ IsPtrToStruct(g.In2)
    /\ g.NumOut = 2 /\ IsPtrToStruct(g.Out0) /\ g.Out1 = "error"

\* two parameters after the receiver, the first a context, and two results,
\* the second an error
ContextAndError(g) ==
    /\ g.NumIn = 3 /\ g.In1 = "context.Context"
    /\ g.NumOut = 2 /\ g.Out1 = "error"

\* the positions of the V<digits> methods of a service that fail a test
Failing(s, Ok(_)) ==
    {i \in DOMAIN s.methods :
        reMethodVersionMatch(s.methods[i].Name) /\ ~Ok(s.methods[i])}

\* the last registration was of service s, whose package path has the prefix
LastRegistered(s) ==
    /\ lastReg.svc = s.id
    /\ HasPrefix(s.PkgPath, TrimSuffix(trimPrefix, <<"/">>))

\* C9 as stated: registering a service with a V<digits> method whose
\* signature is not (context, *RequestStruct) -> (*ResponseStruct, error)
\* fails with a signature error that names such a method.
C9_AnyMismatchFails ==
    \A s \in Services :
        (LastRegistered(s) /\ Failing(s, FullSignature) # {}) =>
            /\ lastReg.result = "error" /\ lastReg.kind = "signature"
            /\ \E i \in Failing(s, FullSignature) : lastReg.name = s.methods[i].Name

\* C9: registering a service fails with a signature error naming the first
\* V<digits> method that does not take a context and one more parameter or
\* does not return two results of which the last is an error, unless the
\* constraint tags of an earlier method have failed already; the types of
\* the request parameter and of the first result raise no signature error.
C9_ContextAndErrorChecked ==
    \A s \in Services :
        LastRegistered(s) =>
            LET bad == Failing(s, ContextAndError)
            IN IF bad = {} THEN lastReg.kind # "signature"
               ELSE LET first == CHOOSE i \in bad : \A j \in bad : i <= j
                    IN lastReg.kind # "tag" =>
                          /\ lastReg.result = "error" /\ lastReg.kind = "signature"
                          /\ lastReg.name = s.methods[first].Name

\* the service whose V2 returns one result failed with a signature error
\* that names V2
C9_Witness ==
    /\ LastRegistered(NoError)
    /\ lastReg = RegResult("noerror", "error", "signature", nV2)

\* C10: CanGzip(s) is true iff one of the elements of s split at commas is
\* "gzip".
C10_GzipIsAToken ==
    gzipRes.applied =>
        (gzipRes.res <=> \E i \in DOMAIN Split(ce, ",") : Split(ce, ",")[i] = gzipWord)

\* CanGzip was false of a header that holds "gzip" inside a longer element
C10_Witness ==
    /\ gzipRes.applied /\ ~gzipRes.res
    /\ Index(ce, gzipWord) # 0

\* C11: CanGzipFast returns for every header what CanGzip returns for it.
C11_FastAgreesWithCanGzip ==
    (gzipRes.applied /\ gzipRes.fastApplied) => (gzipRes.fast <=> gzipRes.res)

\* the paths of the fields of a struct and of the structs in its fields
RECURSIVE FieldPaths(_)
FieldPaths(structName) ==
    UNION {{<<f.Name>>} \cup
           (IF f.Type.kind = "struct" \/ (f.Type.kind = "ptr" /\ f.Type.elem = "struct")
            THEN {<<f.Name>> \o q : q \in FieldPaths(f.Type.name)}
            ELSE {}) : f \in Range(StructDefs[structName])}

\* the struct that holds the field at a path, and the field
RECURSIVE FieldAt(_, _)
FieldAt(structName, fp) ==
    IF Len(fp) = 1
    THEN [owner |-> structName, field |-> FieldByName(structName, fp[1])]
    ELSE FieldAt(FieldByName(structName, fp[1]).Type.name, Tail(fp))

\* the properties a stored struct schema gives the fields of the struct
FieldProperties(schema) ==
    IF Has(schema.properties, "json_data")
    THEN [k \in (DOMAIN schema.properties \ {"json_data"})
                 \cup DOMAIN schema.properties["json_data"].properties |->
            IF k \in DOMAIN schema.properties /\ k # "json_data"
            THEN schema.properties[k]
            ELSE schema.properties["json_data"].properties[k]]
    ELSE schema.properties

\* the lower bound, upper bound and pattern the compiled validators of a
\* descriptor enforce on the field at a path
Enforced(md, fp) ==
    LET fns == IF Has(md.Validators, fp) THEN Range(md.Validators[fp]) ELSE {}
        of(rules) == {fn \in fns : fn.rule \in rules}
        one(S) == CHOOSE fn \in S : TRUE
        lower == of({"vMinimumInt", "vMinimumUint"})
        upper == of({"vMaximumInt"})
        pat == of({"vPattern"})
    IN [minimum |-> IF lower = {} THEN NoBound ELSE Bound(one(lower).target),
        maximum |-> IF upper = {} THEN NoBound ELSE Bound(one(upper).target),
        pattern |-> IF pat = {} THEN NoPattern ELSE Pattern(one(pat).target)]

\* C12: in a generated OpenAPI document, the minimum, maximum and pattern
\* of the property of every request field are the lower bound, the upper
\* bound and the pattern that validation enforces for the field, and are
\* absent when validation enforces none.
C12_DocumentedIsEnforced ==
    \A k \in DOMAIN docs.swagger :
        LET doc == docs.swagger[k]
        IN doc.outcome = "ok" =>
            \A path \in DOMAIN doc.paths :
                LET md == methods[path]
                IN \A fp \in FieldPaths(md.Request.name) :
                      LET at == FieldAt(md.Request.name, fp)
                          key == typeName(TStruct(at.owner))
                          props == IF Has(doc.schemas, key)
                                   THEN FieldProperties(doc.schemas[key]) ELSE EmptyMap
                          name == SchemaFieldName(at.field)
                      IN (at.field.exported /\ name # "-" /\ Has(props, name)) =>
                            LET e == Enforced(md, fp)
                            IN /\ props[name].minimum = e.minimum
                               /\ props[name].maximum = e.maximum
                               /\ props[name].pattern = e.pattern

\* C13: getSchema and addTsStructTypes end on every type, a struct that
\* holds itself through a pointer, a slice or another struct included.
C13_ProjectionsTerminate ==
    /\ \A k \in DOMAIN docs.schema : docs.schema[k].outcome # "overflow"
    /\ \A k \in DOMAIN docs.types : docs.types[k].outcome # "overflow"

\* C13: getSchema ends on every type
C13_GetSchemaTerminates ==
    \A k \in DOMAIN docs.schema : docs.schema[k].outcome # "overflow"

\* C13: addTsStructTypes ends on every type
C13_AddTsStructTypesTerminates ==
    \A k \in DOMAIN docs.types : docs.types[k].outcome # "overflow"

\* the struct types met from the structs in names through fields of any
\* kind, these structs included
RECURSIVE StructsFrom(_)
StructsFrom(names) ==
    LET next == names \cup {f.Type.name :
                               f \in {g \in UNION {Range(StructDefs[n]) : n \in names} :
                                         g.Type.name # ""}}
    IN IF next = names THEN names ELSE StructsFrom(next)

\* the struct types a generation run meets: those of the requests and
\* responses of the registered methods
StructsOf(ms) ==
    StructsFrom({ms[path].Request.name : path \in DOMAIN ms}
                \cup {ms[path].Response.name : path \in DOMAIN ms})

\* C14: in a generation run, two struct types of different structure never
\* have the same name, neither in components.schemas of the OpenAPI
\* document nor in the table of types of the TypeScript client.
C14_NoNameCollision ==
    /\ \A k \in DOMAIN docs.swagger :
          docs.swagger[k].outcome = "ok" =>
             \A a, b \in StructsOf(methods) :
                typeName(TStruct(a)) = typeName(TStruct(b)) => StructDefs[a] = StructDefs[b]
    /\ \A k \in DOMAIN docs.ts :
          docs.ts[k].outcome = "ok" =>
             \A a, b \in StructsOf(methods) :
                toTsTypeName(TStruct(a), docs.prefix) = toTsTypeName(TStruct(b), docs.prefix)
                   => StructDefs[a] = StructDefs[b]

\* the names of the properties of the declaration a client output gives
\* the type of the name tsName
DeclaredNames(out, tsName) ==
    LET decl == CHOOSE d \in Range(out.types) : d.name = tsName
    IN {decl.fields[n].name : n \in DOMAIN decl.fields}

\* C15: the OpenAPI document and the TypeScript client generated from a
\* registry give every struct type of the registry the same set of property
\* names.
C15_SamePropertyNames ==
    \A i \in DOMAIN docs.swagger, j \in DOMAIN docs.ts :
        (docs.swagger[i].outcome = "ok" /\ docs.ts[j].outcome = "ok") =>
            \A s \in StructsOf(methods) :
                LET key == typeName(TStruct(s))
                    tsName == toTsTypeName(TStruct(s), docs.prefix)
                IN (/\ Has(docs.swagger[i].schemas, key)
                    /\ \E d \in Range(docs.ts[j].types) : d.name = tsName) =>
                       DOMAIN FieldProperties(docs.swagger[i].schemas[key])
                          = DeclaredNames(docs.ts[j], tsName)

\* C16: in a generated OpenAPI document the schema of the request type of
\* every method has one property for each exported field not tagged "-",
\* under the JSON name of the field; when the type has a File field, the
\* File fields are the top-level properties and the other fields are the
\* properties of the nested object json_data.
C16_RequestProperties ==
    \A k \in DOMAIN docs.swagger :
        LET doc == docs.swagger[k]
        IN doc.outcome = "ok" =>
            \A path \in DOMAIN doc.paths :
                LET req == methods[path].Request.name
                    schema == doc.schemas[typeName(TStruct(req))]
                    shown == {f \in Range(StructDefs[req]) : f.exported /\ f.json # "-"}
                    files == {f \in shown : f.Type.kind = "file"}
                IN IF files = {}
                   THEN DOMAIN schema.properties = {JsonKey(f) : f \in shown}
                   ELSE /\ DOMAIN schema.properties =
                              {JsonKey(f) : f \in files} \cup {"json_data"}
                        /\ DOMAIN schema.properties["json_data"].properties =
                              {JsonKey(f) : f \in shown \ files}

\* C17: two runs of the TypeScript handler on the same registry write the
\* same output: the same declarations in the same order, the same
\* operations in the same order, the same names for anonymous structs.
C17_SameOutputTwice ==
    \A i, j \in DOMAIN docs.ts : docs.ts[i] = docs.ts[j]

\* the client was generated twice from a registry of several methods, one
\* of them with fields of anonymous struct types
C17_Witness ==
    /\ Len(docs.ts) = 2
    /\ docs.ts[1].outcome = "ok"
    /\ Len(docs.ts[1].methods) >= 2
    /\ Cardinality({d \in Range(docs.ts[2].types) :
                        HasPrefix(d.name, <<"S","t","r","u","c","t","_">>)}) >= 2

\* the JSON part {"int_param": 7} and a file part of the File field
SevenPart == JsonPart(Doc("value", ObjOf([int_param |-> JNum(7)]), FALSE))
FileParts == {part \in Parts : part.name = "content"}
\* the multipart bodies of the two parts, in either order
JsonAndFile(part) == {<<SevenPart, part>>, <<part, SevenPart>>}
\* Call ended in an I/O error of the body or of the temporary file
IOFailed(ret) ==
    \/ /\ ret.kind = "error"
       /\ ret.text \in {"multipart: NextPart", "next", "read", "create", "copy", "seek"}
    \/ ret.kind = "rpcError" /\ ret.msg = Msg("json", "read")

C18_WitnessInMemory ==
    \E c \in Callers : \E part \in FileParts :
        /\ Returned(c) /\ calls[c].stage = "handler"
        /\ calls[c].ret.kind = "resp"
        /\ calls[c].req.parts = <<SevenPart, part>>
        /\ part.size > 0 /\ part.size <= maxMemory
        /\ calls[c].val.Content.backing = "buffer"

\* the payloads given to a constructor: none, one, two
Payloads == {<<>>, <<"p">>, <<"p", "q">>}

\* the service of the last call of RegisterMethod and its path
LastSvc == SvcById(lastReg.svc)
LastPath == getMethodPath(LastSvc, trimPrefix).path

\* the catalog the fields of an ErrorsV<N> structure stand for
CatalogOf(fields) ==
    [n \in {fields[k].Name : k \in DOMAIN fields} |->
        (CHOOSE f \in Range(fields) : f.Name = n).desc]

\* C19: after RegisterMethod has returned nil for a service, every field of
\* each of its ErrorsV<N> structures is a constructor whose error has the
\* name of the field as code, the message given and the first payload
\* given as data (no data when none is given); the catalog of the
\* descriptor of V<N> is the names of these fields with their
\* descriptions, and the catalog of a version without ErrorsV<N> is empty.
C19_ErrorsBound ==
    lastReg.result = "ok" =>
        \A i \in DOMAIN LastSvc.methods :
            LET g == LastSvc.methods[i]
                digits == TrimPrefix(g.Name, nErrorsV)
            IN /\ reErrorsVersionMatch(g.Name) =>
                    /\ \A f \in Range(g.errFields) : \A data \in Payloads :
                          ErrorFunc(LastSvc.id, digits, f.Name, Msg("text", "test"), data)
                             = RpcError(f.Name, Msg("text", "test"),
                                        IF data = <<>> THEN "" ELSE data[1])
                    /\ methods[LastPath \o <<"/", "v">> \o digits].Errors
                          = CatalogOf(g.errFields)
               /\ (/\ reMethodVersionMatch(g.Name)
                   /\ ~\E h \in Range(LastSvc.methods) : h.Name = nErrorsV \o Tail(g.Name)) =>
                     methods[DescPath(LastPath, g.Name)].Errors = EmptyMap

\* package hello is registered: ErrorsV1 is bound, the catalog of V1 has its
\* three entries and the catalogs of V2 and V3 have none
C19_Witness ==
    /\ lastReg.result = "ok" /\ lastReg.svc = "hello"
    /\ Has(errVars, <<"hello", <<"1">>, "Error1">>)
    /\ Cardinality(DOMAIN methods[DescPath(LastPath, nV1)].Errors) = 3
    /\ methods[DescPath(LastPath, nV2)].Errors = EmptyMap

\* what Call returns for a request when no other Call runs: the request
\* value handed to the handler, and the results Call may return
RECURSIVE DecodeParts(_, _, _, _)
DecodeParts(parts, k, val, t) ==
    IF k > Len(parts) THEN [err |-> "", val |-> val]
    ELSE LET part == parts[k]
             ff == checkFileField(part.name, t.name)
         IN IF ff.ok
            THEN DecodeParts(parts, k + 1,
                             [val EXCEPT ![ff.name] =
                                 [nil |-> FALSE, data |-> PartBytes(part)]], t)
            ELSE With(Decode(part.doc, val, t), LAMBDA d :
                    IF d.err \notin {"", "EOF"} THEN d
                    ELSE DecodeParts(parts, k + 1, d.val, t))

\* a request value with the temporary file names of its Files left out
Content(val) ==
    [k \in DOMAIN val |->
        IF k = "Content" THEN [nil |-> val[k].nil, data |-> val[k].data] ELSE val[k]]

Alone(md, request) ==
    LET zero == Content(Zero(ReqType(md)))
        d == IF request.boundary = ""
             THEN Decode(request.doc, zero, ReqType(md))
             ELSE DecodeParts(request.parts, 1, zero, ReqType(md))
        e == IF md.Validators # EmptyMap
             THEN validateData(md, PtrTo(d.val), md.Request, <<>>)
             ELSE NoErr
    IN IF d.err # ""
       THEN [handler |-> FALSE, val |-> d.val,
             rets |-> {RpcError("INVALID_JSON", Msg("json", d.err), "")}]
       ELSE IF e.fail
       THEN [handler |-> FALSE, val |-> d.val,
             rets |-> {RpcError("INVALID_JSON", Msg(e.rule, e.name), "")}]
       ELSE [handler |-> TRUE, val |-> d.val, rets |-> HandlerResults(md, d.val)]

\* C20: however the steps of concurrent Calls interleave, the handler of
\* each Call is given the request decoded from the body of that Call, each
\* Call returns what it returns when no other Call runs, two Calls never
\* share a temporary file, and the registry stays as it was.
C20_CallsDoNotInterfere ==
    /\ methods = TestRegistry.methods
    /\ errVars = TestRegistry.errVars
    /\ \A c \in Callers :
          Returned(c) =>
             LET call == calls[c]
                 alone == Alone(methods[call.path], call.req)
             IN /\ call.ret \in alone.rets
                /\ call.handlerCalls = IF alone.handler THEN 1 ELSE 0
                /\ alone.handler =>
                      IF "Content" \in DOMAIN call.val
                      THEN Content(call.val) = alone.val
                      ELSE call.val = alone.val
    /\ \A c, d \in Callers :
          (/\ c # d
           /\ \E i \in DOMAIN calls[c].files : \E j \in DOMAIN calls[d].files :
                 /\ calls[c].files[i].file.backing = "tmp"
                 /\ calls[d].files[j].file.backing = "tmp"
                 /\ calls[c].files[i].file.id = calls[d].files[j].file.id) => FALSE

\* two Calls on one descriptor have run at the same time and both have
\* returned from the handler, with different requests
C20_Witness ==
    /\ Returned("c1") /\ Returned("c2")
    /\ calls["c1"].path = helloV1 /\ calls["c2"].path = helloV1
    /\ calls["c1"].req # calls["c2"].req
    /\ calls["c1"].stage = "handler" /\ calls["c2"].stage = "handler"
    /\ calls["c1"].pc = "returned" /\ calls["c2"].pc = "returned"

\* a field of a kind the validators table knows that declares one of the
\* constraints of its kind
Declares(f) ==
    CASE f.Type.kind \in {"int", "uint"} -> f.minimum.set \/ f.maximum.set
      [] f.Type.kind = "string" -> f.pattern.set
      [] OTHER -> FALSE

\* the paths of the leaf fields of a request struct, neither struct,
\* pointer to struct nor File, that declare a constraint
ConstrainedLeaves(structName) ==
    {fp \in FieldPaths(structName) :
        LET f == FieldAt(structName, fp).field
        IN /\ f.Type.kind \notin {"struct", "file"}
           /\ ~(f.Type.kind = "ptr" /\ f.Type.elem = "struct")
           /\ Declares(f)}

\* C21: after a successful registration the keys of every descriptor's
\* validator map are exactly the paths of the leaf fields, reachable from
\* the request type through structs and pointers to structs, that declare
\* a minimum, a maximum or a pattern of their kind; an unsigned field that
\* declares only a maximum has a key.
C21_KeysAreConstrainedLeaves ==
    lastReg.result = "ok" =>
        \A path \in DOMAIN methods :
            LET md == methods[path]
            IN (md.Request.kind = "ptr" /\ md.Request.elem = "struct") =>
                  DOMAIN md.Validators = ConstrainedLeaves(md.Request.name)

\* C21, less the unsigned fields that declare only a maximum
C21_KeysButUnsignedMaximumOnly ==
    lastReg.result = "ok" =>
        \A path \in DOMAIN methods :
            LET md == methods[path]
                name == md.Request.name
            IN (md.Request.kind = "ptr" /\ md.Request.elem = "struct") =>
                  DOMAIN md.Validators =
                     {fp \in ConstrainedLeaves(name) :
                         LET f == FieldAt(name, fp).field
                         IN f.Type.kind = "uint" => f.minimum.set}

\* the predicates compiled for the fields of a request value, each with the
\* value of its field: structs entered where they are declared, fields in
\* declaration order, the predicates of a path in compiled order, and
\* nothing for what lies beneath a nil pointer
RECURSIVE Checks(_, _, _, _)
Checks(md, data, t, curPath) ==
    CASE t.kind = "ptr" ->
            IF data.nil THEN <<>> ELSE Checks(md, data.v, Elem(t), curPath)
      [] t.kind = "struct" ->
            Flatten([i \in DOMAIN StructDefs[t.name] |->
                LET f == StructDefs[t.name][i]
                    path == Append(curPath, f.Name)
                IN IF f.Type.kind = "struct" \/ (f.Type.kind = "ptr" /\ f.Type.elem = "struct")
                   THEN Checks(md, data[f.Name], f.Type, path)
                   ELSE IF Has(md.Validators, path)
                   THEN [k \in DOMAIN md.Validators[path] |->
                            [fn |-> md.Validators[path][k], val |-> data[f.Name]]]
                   ELSE <<>>])
      [] OTHER -> <<>>

\* the place in a sequence of checks of the first that is violated, or 0
FirstViolated(cs) ==
    LET bad == {i \in DOMAIN cs : Validate(cs[i].fn, cs[i].val).fail}
    IN IF bad = {} THEN 0 ELSE CHOOSE i \in bad : \A j \in bad : i <= j

\* C22: validation runs the predicates of the fields depth-first in
\* declaration order, those of a path in compiled order; it ends at the
\* first violated one, whose message is the INVALID_JSON message returned,
\* and runs none after it; what lies beneath a nil pointer to a struct is
\* not validated and causes no failure.
C22_FirstViolationInOrder ==
    \A c \in Callers :
        (Decoded(c) /\ methods[calls[c].path].Validators # EmptyMap) =>
            LET call == calls[c]
                md == methods[call.path]
                cs == Checks(md, PtrTo(call.val), md.Request, <<>>)
                first == FirstViolated(cs)
            IN IF first = 0
               THEN call.stage = "handler" /\ call.ran = Len(cs)
               ELSE /\ call.stage = "validate" /\ call.handlerCalls = 0
                    /\ call.ret = RpcError("INVALID_JSON",
                                           Msg(cs[first].fn.rule, cs[first].fn.name), "")
                    /\ call.ran = first

\* a request whose str_param and struct_param.f1 both violate their
\* constraints and whose struct_ptr_param is nil was answered with the
\* message of str_param's pattern, the third predicate run
C22_Witness ==
    \E c \in Callers :
        /\ Returned(c) /\ calls[c].path = helloV1 /\ calls[c].stage = "validate"
        /\ calls[c].val.IntParam = 150 /\ calls[c].val.StrParam = <<"a">>
        /\ calls[c].val.StructParam.F1 = 0 /\ calls[c].val.StructPtrParam.nil
        /\ calls[c].ret.msg = Msg("vPattern", "str_param")
        /\ calls[c].ran = 3

\* a request whose struct_ptr_param is nil reached the handler although F1
\* declares a minimum of 1
C22_WitnessNilSkipped ==
    \E c \in Callers :
        /\ Returned(c) /\ calls[c].path = helloV1 /\ calls[c].stage = "handler"
        /\ calls[c].val.StructPtrParam.nil
        /\ calls[c].ran = 5

\* the JSON keys of the fields along a field path
RECURSIVE KeysOf(_, _)
KeysOf(structName, fp) ==
    LET f == FieldByName(structName, fp[1])
    IN IF Len(fp) = 1 THEN <<JsonKey(f)>>
       ELSE <<JsonKey(f)>> \o KeysOf(f.Type.name, Tail(fp))

\* the member of a JSON object at a sequence of keys, Absent if there is none
RECURSIVE JsonAt(_, _)
JsonAt(obj, keys) ==
    IF ~Has(obj, keys[1]) THEN Absent
    ELSE IF Len(keys) = 1 THEN obj[keys[1]]
    ELSE IF obj[keys[1]].t = "obj" THEN JsonAt(obj[keys[1]].o, Tail(keys))
    ELSE Absent

\* the field of a request value at a field path, as a pointer to it that
\* is nil when a pointer on the way is nil
RECURSIVE GoValueAt(_, _, _)
GoValueAt(val, structName, fp) ==
    LET f == FieldByName(structName, fp[1])
        v == val[fp[1]]
    IN IF Len(fp) = 1 THEN PtrTo(v)
       ELSE IF f.Type.kind = "ptr"
       THEN IF v.nil THEN NilPtr ELSE GoValueAt(v.v, f.Type.name, Tail(fp))
       ELSE GoValueAt(v, f.Type.name, Tail(fp))

\* the Go value of a JSON number, string, boolean or array of strings
GoValueOf(jv) ==
    CASE jv.t = "num" -> jv.n
      [] jv.t = "str" -> jv.s
      [] jv.t = "bool" -> jv.b
      [] jv.t = "arr" -> jv.s

\* the leaf fields of a request struct that JSON parts set
JsonLeaves(structName) ==
    {fp \in FieldPaths(structName) :
        LET f == FieldAt(structName, fp).field
        IN f.Type.kind \in {"int", "uint", "string", "bool", "slice"}}

\* the parts of a request that are decoded as JSON and give the field at
\* the keys a value
Setters(parts, structName, keys) ==
    {i \in DOMAIN parts :
        /\ ~checkFileField(parts[i].name, structName).ok
        /\ parts[i].doc.form = "value"
        /\ JsonAt(parts[i].doc.obj, keys) # Absent}

\* every field of the request value of a call holds what the last non-file
\* part of the request that mentions it gives it
HoldsLastValues(call) ==
    LET name == ReqType(methods[call.path]).name
    IN \A fp \in JsonLeaves(name) :
          LET keys == KeysOf(name, fp)
              set == Setters(call.req.parts, name, keys)
              last == CHOOSE i \in set : \A j \in set : j <= i
              got == GoValueAt(call.val, name, fp)
          IN IF set = {}
             THEN got.nil \/ got.v = Zero(FieldAt(name, fp).field.Type)
             ELSE ~got.nil
                  /\ got.v = GoValueOf(JsonAt(call.req.parts[last].doc.obj, keys))

\* C23: when the parts of a multipart body have all been decoded, every
\* field of the request value holds what the last non-file part that
\* mentions it gives it, a field that later parts do not mention keeps what
\* an earlier part gave it and a field no part mentions is at its zero
\* value; after the last part of a body that ends with its closing
\* boundary the Call goes on to validation unless reading fails.
C23_LastPartWins ==
    \A c \in Callers :
        LET call == calls[c]
        IN /\ (call.req.boundary # "" /\ call.path # <<>>
               /\ (call.pc \in {"validate", "dispatch"} \/ Decoded(c)))
              => HoldsLastValues(call)
           /\ (Returned(c) /\ call.req.boundary # "" /\ call.req.closed
               /\ call.next > Len(call.req.parts) /\ call.stage = "decode")
              => IOFailed(call.ret)

\* two JSON parts were decoded into one request value: the first gave
\* int_param, str_param and struct_param.f1, the second gave int_param
\* again; the handler saw the second part's int_param and the first part's
\* str_param
C23_Witness ==
    \E c \in Callers :
        /\ Returned(c) /\ calls[c].path = helloV1 /\ calls[c].stage = "handler"
        /\ Len(calls[c].req.parts) = 2
        /\ calls[c].req.parts[1].doc.obj = okV1
        /\ calls[c].val.IntParam = 120
        /\ calls[c].val.StrParam = <<"a","b">>
        /\ calls[c].val.StructParam.F1 = 1
        /\ calls[c].val.ArrParam = <<"a">>

\* a field whose zero value violates its constraint: an integer with a
\* minimum above 0, or a string whose pattern does not match ""
ZeroViolates(f) ==
    \/ /\ f.Type.kind \in {"int", "uint"}
       /\ f.minimum.set /\ f.minimum.num /\ f.minimum.val > 0
    \/ /\ f.Type.kind = "string"
       /\ f.pattern.set /\ f.pattern.ok /\ ~MatchString(f.pattern.items, <<>>)

\* the body of a request gives the field at a path no value
AbsentFromBody(req, structName, fp) ==
    IF req.boundary = ""
    THEN req.doc.form = "value" /\ JsonAt(req.doc.obj, KeysOf(structName, fp)) = Absent
    ELSE Setters(req.parts, structName, KeysOf(structName, fp)) = {}

\* the fields of a decoded request, of those whose zero value violates
\* their constraint, that the body leaves out
LeftOut(call) ==
    LET name == ReqType(methods[call.path]).name
    IN {fp \in JsonLeaves(name) :
           /\ ZeroViolates(FieldAt(name, fp).field)
           /\ AbsentFromBody(call.req, name, fp)}

\* C24: a request that decodes and leaves out a field whose zero value
\* violates the field's constraint, wherever the field lies, is answered
\* with INVALID_JSON by validation and does not reach the handler.
C24_AbsentFailsAtZero ==
    \A c \in Callers :
        (Decoded(c) /\ LeftOut(calls[c]) # {}) =>
            /\ calls[c].stage = "validate"
            /\ InvalidJson(calls[c].ret)
            /\ calls[c].handlerCalls = 0

\* C24 for the fields that do not lie beneath a nil pointer to a struct: a
\* request that decodes and leaves out such a field is answered with
\* INVALID_JSON by validation and does not reach the handler.
C24_AbsentNotBeneathNilFailsAtZero ==
    \A c \in Callers :
        LET call == calls[c]
            name == ReqType(methods[call.path]).name
        IN (Decoded(c)
            /\ \E fp \in LeftOut(call) : ~GoValueAt(call.val, name, fp).nil) =>
              /\ call.stage = "validate"
              /\ InvalidJson(call.ret)
              /\ call.handlerCalls = 0

\* a request without int_param, whose other fields are valid, was answered
\* with the message of int_param's minimum
C24_Witness ==
    \E c \in Callers :
        /\ Answered(c) /\ calls[c].path = helloV1 /\ calls[c].req.boundary = ""
        /\ ~Has(calls[c].req.doc.obj, "int_param")
        /\ Has(calls[c].req.doc.obj, "str_param") /\ calls[c].val.StrParam = <<"a","b">>
        /\ calls[c].val.StructParam.F1 = 1
        /\ calls[c].val.IntParam = 0
        /\ Status400InvalidJson(calls[c].resp)
        /\ calls[c].resp.msg = Msg("vMinimumInt", "int_param")
        /\ calls[c].handlerCalls = 0

\* C25: a call of RegisterMethod that returns an error, be it a signature
\* error, a constraint-tag parse error or an error of the error-catalog
\* binding, leaves the registry as it was: the same descriptors with the
\* same error catalogs.
C25_AllOrNothing ==
    [][lastReg'.result = "error" => methods' = methods]_vars

\* C25 for the errors of descsFromMethod: a call of RegisterMethod that
\* returns a prefix, signature or constraint-tag error leaves the registry
\* and the services' error structures as they were.
C25_DescriptorErrorsChangeNothing ==
    [][(lastReg'.result = "error" /\ lastReg'.kind \in {"prefix", "signature", "tag"})
          => (methods' = methods /\ errVars' = errVars)]_vars

\* the versions of the ErrorsV<N> accessors of a service that return a
\* pointer to a struct with at least one field
BoundVersions(svc) ==
    {TrimPrefix(g.Name, nErrorsV) :
        g \in {h \in Range(svc.methods) :
                  reErrorsVersionMatch(h.Name) /\ h.errPtr /\ h.errFields # <<>>}}

\* C26: the error-catalog binding never writes the catalog of a descriptor
\* that is missing, and the registration of a service that declares
\* ErrorsV<N> without a V<N> method returns, with or without an error,
\* instead of crashing.
C26_BindingFindsDescriptor ==
    /\ ~(lastReg.result = "panic" /\ lastReg.kind = "nil descriptor")
    /\ lastReg.svc = "errorsnomethod" => lastReg.result \in {"ok", "error"}

\* C26, where it holds: the binding meets a missing descriptor only for a
\* service with an ErrorsV<N> accessor, of a structure with fields, and no
\* V<N> method
C26_CrashOnlyWithoutMethod ==
    (lastReg.result = "panic" /\ lastReg.kind = "nil descriptor") =>
        \E digits \in BoundVersions(SvcById(lastReg.svc)) :
            \A g \in Range(SvcById(lastReg.svc).methods) : g.Name # <<"V">> \o digits

====
